---- MODULE Spec2Model ----
(***************************************************************************)
(* File Manager CLI: the command dispatch loop (src/cli/cli.ts), the       *)
(* command registry (src/cli/CommandRegistry.ts), the quote-aware parser   *)
(* (src/utils/validation.ts) and the cancellable FileManager operations    *)
(* (src/cli/FileManager.ts).                                               *)
(*                                                                         *)
(* Strings of the program are sequences of one-character strings, so that  *)
(* trimming, tokenizing and name lookup are computed as the code computes  *)
(* them.                                                                   *)
(***************************************************************************)
EXTENDS Integers, Sequences, FiniteSets, TLC

VARIABLES
    rl,                      \* CLI.rl: the readline interface, or NullInterface
    isRunning,               \* CLI.isRunning
    isPrompting,             \* CLI.isPrompting
    isExecutingCommand,      \* CLI.isExecutingCommand
    currentAbortController,  \* CLI.currentAbortController: a controller id, or NoController
    lastCtrlCTime,           \* CLI.lastCtrlCTime
    now,                     \* the value Date.now() returned last
    lastSignal,              \* time of the latest interrupt signal, 0 if none
    aborted,                 \* the AbortControllers in use whose signal is aborted
    runs,                    \* the pending handleInput invocations (suspended at an await)
    exited,                  \* the process has terminated
    exitCode,                \* its exit code
    ev,                      \* the event handled by the last step and what it printed
    fm,                      \* one FileManager operation and the files it works on
    commandRegistry,         \* a CommandRegistry: its commands and aliases maps
    call,                    \* the last call made on commandRegistry and what it gave
    scan,                    \* one parseCommandWithQuotes call: the locals of its loop
    flagsCall,               \* the last parseFlags / parseArgs call and what it returned
    nav,                     \* FileManager._homeDir, process.cwd() and the last move
    walk                     \* one findFiles / grep call over a directory tree

vars == <<rl, isRunning, isPrompting, isExecutingCommand, currentAbortController,
          lastCtrlCTime, now, lastSignal, aborted, runs, exited, exitCode,
          ev, fm, commandRegistry, call, scan, flagsCall, nav, walk>>

cliVars == <<rl, isRunning, isPrompting, isExecutingCommand, currentAbortController,
             lastCtrlCTime, now, lastSignal, aborted, runs, exited, exitCode,
             ev>>

\* signal === undefined
NoSignal == 0

\* currentAbortController === null
NoController == 0

\* rl === null
NullInterface == [null |-> TRUE, closed |-> FALSE, lineListeners |-> 0, sigintListeners |-> 0]

\* the process is running
NoExitCode == -1

(***************************************************************************)
(* Bounds of the model.                                                    *)
(***************************************************************************)
MaxRuns == 2
\* the longest input string given to parseCommandWithQuotes on its own
MaxLen == 4
\* the longest argument list given to parseFlags / parseArgs
MaxArgs == 3

MaxInterrupts == 2

(***************************************************************************)
(* Characters and strings.                                                 *)
(***************************************************************************)
DQ == "\""

SQ == "'"

BS == "\\"

SP == " "

TAB == "\t"

Whitespace == {SP, TAB}

\* String.prototype.trim: drop the white space at both ends
RECURSIVE TrimStart(_)
TrimStart(s) ==
    IF s # <<>> /\ Head(s) \in Whitespace THEN TrimStart(Tail(s)) ELSE s

RECURSIVE TrimEnd(_)
TrimEnd(s) ==
    IF s # <<>> /\ s[Len(s)] \in Whitespace THEN TrimEnd(SubSeq(s, 1, Len(s) - 1)) ELSE s

Trim(s) == TrimEnd(TrimStart(s))

(***************************************************************************)
(* parseCommandWithQuotes: one left-to-right scan.  i is the 1-based index *)
(* of the character under the scan.                                        *)
(***************************************************************************)
\* IsQuoteToggle that takes no character for a quote
IsQuoteToggle_never(char, prevChar) == FALSE

IsQuoteToggle(char, prevChar) == char \in {DQ, SQ} /\ prevChar # BS

\* IsEscape for the two quotes only
IsEscape_quotesOnly(input, i) ==
    /\ input[i] = BS
    /\ i + 1 <= Len(input)
    /\ input[i + 1] \in {DQ, SQ}

IsEscape(input, i) ==
    /\ input[i] = BS
    /\ i + 1 <= Len(input)
    /\ input[i + 1] \in {DQ, SQ, BS}

\* Flush that never pushes
Flush_never(result, current) == result

\* Flush that pushes current even when it is empty
Flush_always(result, current) == Append(result, current)

Flush(result, current) == IF Len(current) > 0 THEN Append(result, current) ELSE result

\* IsSeparator with the tab taken as a separator too
IsSeparator_whitespace(char, inQuotes) == char \in Whitespace /\ ~inQuotes

\* IsSeparator that does not look at the quoting state
IsSeparator_anywhere(char, inQuotes) == char = SP

\* the space that ends an argument
IsSeparator(char, inQuotes) == char = SP /\ ~inQuotes

\* the locals of the loop
Locals(i, result, current, inQuotes, quoteChar, branch) ==
    [i |-> i, result |-> result, current |-> current, inQuotes |-> inQuotes,
     quoteChar |-> quoteChar, branch |-> branch]

(***************************************************************************)
(* One iteration of the loop, on the character input[i].  branch names the *)
(* branch of the loop body that was taken.                                 *)
(***************************************************************************)
ScanChar(input, i, result, current, inQuotes, quoteChar) ==
    LET char == input[i]
        prevChar == IF i > 1 THEN input[i - 1] ELSE ""
    IN  IF IsQuoteToggle(char, prevChar)
        THEN IF ~inQuotes
             THEN Locals(i + 1, result, current, TRUE, char, "open")
             ELSE IF char = quoteChar
                  THEN Locals(i + 1, result, current, FALSE, "", "close")
                  ELSE Locals(i + 1, result, Append(current, char), inQuotes, quoteChar,
                              "otherQuote")
        ELSE IF IsSeparator(char, inQuotes)
             THEN Locals(i + 1, Flush(result, current), <<>>, inQuotes, quoteChar,
                         "separator")
             ELSE IF IsEscape(input, i)
                  THEN Locals(i + 2, result, Append(current, input[i + 1]), inQuotes,
                              quoteChar, "escape")
                  ELSE Locals(i + 1, result, Append(current, char), inQuotes, quoteChar,
                              "literal")

RECURSIVE ParseScan(_, _, _, _, _, _)
ParseScan(input, i, result, current, inQuotes, quoteChar) ==
    IF i > Len(input)
    THEN Flush(result, current)
    ELSE LET s == ScanChar(input, i, result, current, inQuotes, quoteChar)
         IN  ParseScan(input, s.i, s.result, s.current, s.inQuotes, s.quoteChar)

\* what the function returns for the tokens result
Parsed(result) ==
    [command |-> IF result # <<>> THEN result[1] ELSE <<>>,
     args    |-> IF result # <<>> THEN Tail(result) ELSE <<>>]

parseCommandWithQuotes(input) == Parsed(ParseScan(input, 1, <<>>, <<>>, FALSE, ""))

\* [parsed.command, ...parsed.args].filter((s) => s.length > 0)
tokenize(input) ==
    LET parsed == parseCommandWithQuotes(input)
    IN  SelectSeq(<<parsed.command>> \o parsed.args, LAMBDA s : Len(s) > 0)

(***************************************************************************)
(* parseFlags (src/utils/validation.ts) and parseArgs (src/utils/args.ts). *)
(* A flags Map is a function from keys to values; a value is the boolean   *)
(* true ([isTrue |-> TRUE, text |-> <<>>]) or a string                     *)
(* ([isTrue |-> FALSE, text |-> the string]).                              *)
(***************************************************************************)
\* String.prototype.startsWith
startsWith(str, prefix) ==
    Len(str) >= Len(prefix) /\ SubSeq(str, 1, Len(prefix)) = prefix

isFlag(str) == startsWith(str, <<"-">>) /\ Len(str) > 1

\* String.prototype.split(sep) for a one-character separator
RECURSIVE split(_, _)
split(str, sep) ==
    IF \E k \in 1 .. Len(str) : str[k] = sep
    THEN LET k == CHOOSE j \in 1 .. Len(str) :
                      str[j] = sep /\ \A l \in 1 .. j - 1 : str[l] # sep
         IN  <<SubSeq(str, 1, k - 1)>> \o split(SubSeq(str, k + 1, Len(str)), sep)
    ELSE <<str>>

\* a long flag whose value is everything after the first "="
LongFlag_firstDelimiter(withoutPrefix) ==
    LET k == CHOOSE j \in 1 .. Len(withoutPrefix) :
                 withoutPrefix[j] = "=" /\ \A l \in 1 .. j - 1 : withoutPrefix[l] # "="
    IN  IF \E j \in 1 .. Len(withoutPrefix) : withoutPrefix[j] = "="
        THEN [key |-> SubSeq(withoutPrefix, 1, k - 1),
              value |-> [isTrue |-> FALSE,
                         text |-> SubSeq(withoutPrefix, k + 1, Len(withoutPrefix))]]
        ELSE [key |-> withoutPrefix, value |-> [isTrue |-> TRUE, text |-> <<>>]]

\* the entry a long flag adds: --name gives true, --name=value the first two pieces
\* of name=value split at every "="
LongFlag(withoutPrefix) ==
    IF \E k \in 1 .. Len(withoutPrefix) : withoutPrefix[k] = "="
    THEN [key |-> split(withoutPrefix, "=")[1],
          value |-> [isTrue |-> FALSE, text |-> split(withoutPrefix, "=")[2]]]
    ELSE [key |-> withoutPrefix, value |-> [isTrue |-> TRUE, text |-> <<>>]]

\* a short flag that never takes the token after it
TakesValue_never(args, i) == FALSE

\* the test on the token after a short flag: nextArg && !nextArg.startsWith("-")
TakesValue(args, i) ==
    /\ i + 1 <= Len(args)
    /\ args[i + 1] # <<>>
    /\ ~startsWith(args[i + 1], <<"-">>)

RECURSIVE ParseFlagsLoop(_, _, _, _)
ParseFlagsLoop(args, i, flags, remaining) ==
    IF i > Len(args)
    THEN [flags |-> flags, remaining |-> remaining]
    ELSE LET arg == args[i]
         IN  IF startsWith(arg, <<"-", "-">>)
             THEN LET f == LongFlag(SubSeq(arg, 3, Len(arg)))
                  IN  ParseFlagsLoop(args, i + 1, (f.key :> f.value) @@ flags, remaining)
             ELSE IF startsWith(arg, <<"-">>) /\ Len(arg) = 2
                  THEN IF TakesValue(args, i)
                       THEN ParseFlagsLoop(args, i + 2,
                                (<<arg[2]>> :> [isTrue |-> FALSE, text |-> args[i + 1]])
                                    @@ flags,
                                remaining)
                       ELSE ParseFlagsLoop(args, i + 1,
                                (<<arg[2]>> :> [isTrue |-> TRUE, text |-> <<>>]) @@ flags,
                                remaining)
                  ELSE ParseFlagsLoop(args, i + 1, flags, Append(remaining, arg))

parseFlags(args) == ParseFlagsLoop(args, 1, <<>>, <<>>)

\* parseArgs on process.argv.slice(2) = argv: only the long flags are read, and
\* --username=value sets the username instead of a flag
RECURSIVE parseArgs(_)
parseArgs(argv) ==
    IF argv = <<>>
    THEN [username |-> <<"A", "n", "o", "n", "y", "m", "o", "u", "s">>, flags |-> <<>>]
    ELSE LET arg == argv[Len(argv)]
             result == parseArgs(SubSeq(argv, 1, Len(argv) - 1))
             f == LongFlag(SubSeq(arg, 3, Len(arg)))
         IN  IF ~startsWith(arg, <<"-", "-">>)
             THEN result
             ELSE IF ~f.value.isTrue /\ f.key = <<"u", "s", "e", "r", "n", "a", "m", "e">>
                  THEN [result EXCEPT !.username =
                            IF f.value.text # <<>> THEN f.value.text
                            ELSE <<"A", "n", "o", "n", "y", "m", "o", "u", "s">>]
                  ELSE [result EXCEPT !.flags = (f.key :> f.value) @@ @]

(***************************************************************************)
(* Command names and aliases, as the strings the registry is keyed by.     *)
(***************************************************************************)
n_dot_exit == <<".", "e", "x", "i", "t">>

n_exit == <<"e", "x", "i", "t">>

n_quit == <<"q", "u", "i", "t">>

n_q == <<"q">>

n_rm == <<"r", "m">>

n_del == <<"d", "e", "l">>

n_delete == <<"d", "e", "l", "e", "t", "e">>

n_rmdir == <<"r", "m", "d", "i", "r">>

n_rd == <<"r", "d">>

n_find == <<"f", "i", "n", "d">>

n_search == <<"s", "e", "a", "r", "c", "h">>

n_grep == <<"g", "r", "e", "p">>

n_where == <<"w", "h", "e", "r", "e">>

n_cat == <<"c", "a", "t">>

n_type == <<"t", "y", "p", "e">>

n_cp == <<"c", "p">>

n_copy == <<"c", "o", "p", "y">>

n_move == <<"m", "o", "v", "e">>

n_hash == <<"h", "a", "s", "h">>

n_md5 == <<"m", "d", "5">>

n_sha1 == <<"s", "h", "a", "1">>

n_sha256 == <<"s", "h", "a", "2", "5", "6">>

n_sha512 == <<"s", "h", "a", "5", "1", "2">>

n_compress == <<"c", "o", "m", "p", "r", "e", "s", "s">>

n_decompress == <<"d", "e", "c", "o", "m", "p", "r", "e", "s", "s">>

n_brotli == <<"b", "r", "o", "t", "l", "i">>

n_gzip == <<"g", "z", "i", "p">>

n_deflate == <<"d", "e", "f", "l", "a", "t", "e">>

n_unbrotli == <<"u", "n", "b", "r", "o", "t", "l", "i">>

n_gunzip == <<"g", "u", "n", "z", "i", "p">>

n_inflate == <<"i", "n", "f", "l", "a", "t", "e">>

n_up == <<"u", "p">>

n_add == <<"a", "d", "d">>

n_touch == <<"t", "o", "u", "c", "h">>

(***************************************************************************)
(* CommandRegistry: commands is the Map name -> Command, aliases the Map   *)
(* alias -> command name.  A Command's handler is named by its identifier  *)
(* in the source; Handlers below gives what each handler does.             *)
(***************************************************************************)
Undefined == [name |-> <<>>, handler |-> "undefined", requiresConfirmation |-> FALSE]

EmptyRegistry == [commands |-> <<>>, aliases |-> <<>>]

\* register that keeps the entry a name already has
register_keepFirst(reg, name, handler, requiresConfirmation) ==
    [reg EXCEPT !.commands =
        @ @@ (name :> [name |-> name, handler |-> handler,
                        requiresConfirmation |-> requiresConfirmation])]

\* a register that drops the aliases of the name it overwrites
register_dropAliases(reg, name, handler, requiresConfirmation) ==
    [reg EXCEPT !.commands =
                    (name :> [name |-> name, handler |-> handler,
                              requiresConfirmation |-> requiresConfirmation]) @@ @,
                !.aliases =
                    [a \in { b \in DOMAIN @ : @[b] # name } |-> @[a]]]

register(reg, name, handler, requiresConfirmation) ==
    [reg EXCEPT !.commands =
        (name :> [name |-> name, handler |-> handler,
                  requiresConfirmation |-> requiresConfirmation]) @@ @]

\* registerAlias throws when the target is not a registered command name
registerAliasThrows(reg, commandName) == commandName \notin DOMAIN reg.commands

\* registerAlias that sets the alias whether or not the target is registered
registerAlias_unchecked(reg, alias, commandName) ==
    [reg EXCEPT !.aliases = (alias :> commandName) @@ @]

registerAlias(reg, alias, commandName) ==
    IF registerAliasThrows(reg, commandName)
    THEN reg
    ELSE [reg EXCEPT !.aliases = (alias :> commandName) @@ @]

actualName(reg, name) ==
    IF name \in DOMAIN reg.aliases THEN reg.aliases[name] ELSE name

\* get that prefers the command stored under the name itself to the alias
get_commandFirst(reg, name) ==
    IF name \in DOMAIN reg.commands
    THEN reg.commands[name]
    ELSE IF actualName(reg, name) \in DOMAIN reg.commands
         THEN reg.commands[actualName(reg, name)]
         ELSE Undefined

get(reg, name) ==
    IF actualName(reg, name) \in DOMAIN reg.commands
    THEN reg.commands[actualName(reg, name)]
    ELSE Undefined

\* has without the alias lookup
has_direct(reg, name) == name \in DOMAIN reg.commands

has(reg, name) == actualName(reg, name) \in DOMAIN reg.commands

\* requiresConfirmation without the alias lookup
requiresConfirmation_direct(reg, name) ==
    IF name \in DOMAIN reg.commands THEN reg.commands[name].requiresConfirmation ELSE FALSE

\* requiresConfirmation that answers true for a name that resolves to nothing
requiresConfirmation_unknownTrue(reg, name) ==
    IF get(reg, name) = Undefined THEN TRUE ELSE get(reg, name).requiresConfirmation

requiresConfirmation(reg, name) ==
    IF get(reg, name) = Undefined THEN FALSE ELSE get(reg, name).requiresConfirmation

\* get size(): the number of entries of the commands map
size(reg) == Cardinality(DOMAIN reg.commands)

\* clear empties both maps
\* a clear that leaves the command map as it is
clear_keepCommands(reg) == [reg EXCEPT !.aliases = <<>>]

\* a clear that leaves the alias map as it is
clear_keepAliases(reg) == [reg EXCEPT !.commands = <<>>]

clear(reg) == [reg EXCEPT !.commands = <<>>, !.aliases = <<>>]

(***************************************************************************)
(* The handlers registered at start-up.  minArgs is the number of leading  *)
(* arguments the handler checks before its first await, awaits says        *)
(* whether it suspends on a FileManager operation (op), and signal whether *)
(* its parameter list takes the AbortSignal and hands it to that operation.*)
(***************************************************************************)
H(minArgs, awaits, signal, op) ==
    [minArgs |-> minArgs, awaits |-> awaits, signal |-> signal, op |-> op]

Handlers ==
    [ upHandler         |-> H(0, FALSE, FALSE, "navigateUp"),
      catHandler        |-> H(1, TRUE,  TRUE,  "readFile"),
      addHandler        |-> H(1, TRUE,  FALSE, "createFile"),
      cpHandler         |-> H(2, TRUE,  TRUE,  "copyFile"),
      moveHandler       |-> H(2, TRUE,  TRUE,  "moveFile"),
      rmHandler         |-> H(1, TRUE,  FALSE, "deleteFile"),
      rmdirHandler      |-> H(1, TRUE,  FALSE, "deleteDirectory"),
      findHandler       |-> H(1, TRUE,  TRUE,  "findFiles"),
      grepHandler       |-> H(2, TRUE,  TRUE,  "grep"),
      whereHandler      |-> H(1, TRUE,  TRUE,  "grep"),
      hashHandler       |-> H(1, TRUE,  FALSE, "calculateHash"),
      md5Handler        |-> H(1, TRUE,  FALSE, "calculateHash"),
      sha256Handler     |-> H(1, TRUE,  FALSE, "calculateHash"),
      sha512Handler     |-> H(1, TRUE,  FALSE, "calculateHash"),
      sha1Handler       |-> H(1, TRUE,  FALSE, "calculateHash"),
      compressHandler   |-> H(2, TRUE,  TRUE,  "compressFile"),
      decompressHandler |-> H(2, TRUE,  TRUE,  "decompressFile"),
      brotliHandler     |-> H(2, TRUE,  TRUE,  "compressFile"),
      gzipHandler       |-> H(2, TRUE,  TRUE,  "compressFile"),
      deflateHandler    |-> H(2, TRUE,  TRUE,  "compressFile"),
      gunzipHandler     |-> H(2, TRUE,  TRUE,  "decompressFile"),
      unbrotliHandler   |-> H(2, TRUE,  TRUE,  "decompressFile"),
      inflateHandler    |-> H(2, TRUE,  TRUE,  "decompressFile"),
      exitHandler       |-> H(0, FALSE, FALSE, "exit") ]

R(name, handler, confirm) ==
    [call |-> "register", name |-> name, handler |-> handler, confirm |-> confirm]

A(alias, commandName) ==
    [call |-> "registerAlias", name |-> alias, handler |-> commandName, confirm |-> FALSE]

\* the register / registerAlias calls of CLI.registerAllCommands, in their order
registerAllCommands ==
    << R(n_up, "upHandler", FALSE),
       R(n_cat, "catHandler", FALSE), A(n_type, n_cat),
       R(n_add, "addHandler", FALSE), R(n_touch, "addHandler", FALSE),
       R(n_cp, "cpHandler", FALSE), A(n_copy, n_cp),
       R(n_move, "moveHandler", FALSE),
       R(n_rm, "rmHandler", TRUE), A(n_del, n_rm), A(n_delete, n_rm),
       R(n_rmdir, "rmdirHandler", TRUE), A(n_rd, n_rmdir),
       R(n_find, "findHandler", FALSE), A(n_search, n_find),
       R(n_grep, "grepHandler", FALSE),
       R(n_where, "whereHandler", FALSE),
       R(n_hash, "hashHandler", FALSE),
       R(n_md5, "md5Handler", FALSE),
       R(n_sha256, "sha256Handler", FALSE),
       R(n_sha512, "sha512Handler", FALSE),
       R(n_sha1, "sha1Handler", FALSE),
       R(n_compress, "compressHandler", FALSE),
       R(n_decompress, "decompressHandler", FALSE),
       R(n_brotli, "brotliHandler", FALSE),
       R(n_gzip, "gzipHandler", FALSE),
       R(n_deflate, "deflateHandler", FALSE),
       R(n_gunzip, "gunzipHandler", FALSE),
       R(n_unbrotli, "unbrotliHandler", FALSE),
       R(n_inflate, "inflateHandler", FALSE),
       R(n_dot_exit, "exitHandler", FALSE),
       A(n_exit, n_dot_exit), A(n_quit, n_dot_exit), A(n_q, n_dot_exit) >>

RECURSIVE ApplyCalls(_, _)
ApplyCalls(reg, calls) ==
    IF calls = <<>>
    THEN reg
    ELSE LET c == Head(calls)
         IN  ApplyCalls(IF c.call = "register"
                        THEN register(reg, c.name, c.handler, c.confirm)
                        ELSE registerAlias(reg, c.name, c.handler),
                        Tail(calls))

\* CLI.registry after the constructor
registry == ApplyCalls(EmptyRegistry, registerAllCommands)

(***************************************************************************)
(* Failures and console output.  A thrown value is an Error object with a  *)
(* name and a message; a console line is a tuple of its parts.             *)
(***************************************************************************)
NoError == [name |-> "", message |-> "", instanceOfError |-> FALSE]

Error(message) == [name |-> "Error", message |-> message, instanceOfError |-> TRUE]

\* new DOMException("Operation aborted", "AbortError")
AbortError ==
    [name |-> "AbortError", message |-> "Operation aborted", instanceOfError |-> TRUE]

\* the rejection of the confirmation prompt
PromptError ==
    [name |-> "ExitPromptError", message |-> "prompt closed", instanceOfError |-> TRUE]

DOUBLE_CTRL_C_THRESHOLD_MS == 1000

HASH_ALGORITHMS == { n_sha256, n_sha512, n_md5, n_sha1 }

COMPRESSION_ALGORITHMS == { n_brotli, n_gzip, n_deflate }

\* CLI.handleError
handleError(error) ==
    IF error.instanceOfError
    THEN << <<"Error:", error.message>> >>
    ELSE << <<"An unknown error occurred.">> >>

\* the test of the catch block with the DOMException's legacy code name
IsAbortError_byCode(error) == error.instanceOfError /\ error.name = "ABORT_ERR"

\* error instanceof Error && error.name === "AbortError"
IsAbortError(error) == error.instanceOfError /\ error.name = "AbortError"

\* a catch block that reports the failure and throws it again
handleInputCatch_rethrow(error) ==
    IF IsAbortError(error)
    THEN [out |-> <<>>, escapes |-> FALSE]
    ELSE [out |-> handleError(error), escapes |-> TRUE]

\* the catch block of CLI.handleInput: what it prints for a caught failure, and
\* whether the failure leaves handleInput (an unhandled rejection of the listener)
handleInputCatch(error) ==
    IF IsAbortError(error)
    THEN [out |-> <<>>, escapes |-> FALSE]
    ELSE [out |-> handleError(error), escapes |-> FALSE]

\* the failure a handler throws before its first await, NoError if none
ArgError(handler, args) ==
    IF Len(args) < Handlers[handler].minArgs
    THEN Error("Missing required argument")
    ELSE IF handler = "hashHandler" /\ Len(args) >= 2 /\ args[2] \notin HASH_ALGORITHMS
         THEN Error("Invalid algorithm")
         ELSE IF handler = "compressHandler" /\ Len(args) >= 3
                 /\ args[3] \notin COMPRESSION_ALGORITHMS
              THEN Error("Invalid algorithm")
              ELSE NoError

(***************************************************************************)
(* CommandRegistry.execute up to the handler's first suspension.           *)
(*   "threw"    the lookup or the handler failed with .thrown              *)
(*   "exit"     the handler called CLI.exit                                *)
(*   "returned" the handler completed without suspending                   *)
(*   "pending"  the handler is suspended on its FileManager operation      *)
(* opSignal is the signal the handler hands to that operation.             *)
(***************************************************************************)
HandlerSignal(handler, signal) ==
    IF Handlers[handler].signal THEN signal ELSE NoSignal

\* execute with the handler's failure replaced by a failure of its own
execute_wrapped(reg, name, args, signal) ==
    LET command == get(reg, name)
    IN  IF command = Undefined
        THEN [state |-> "threw", invoked |-> "none", thrown |-> Error("Unknown command"),
              opSignal |-> NoSignal, handlerArgs |-> <<>>, handlerSignal |-> NoSignal]
        ELSE IF ArgError(command.handler, args) # NoError
        THEN [state |-> "threw", invoked |-> command.handler,
              thrown |-> Error("Command failed"), opSignal |-> NoSignal,
              handlerArgs |-> args, handlerSignal |-> signal]
        ELSE [state |-> IF command.handler = "exitHandler" THEN "exit"
                        ELSE IF Handlers[command.handler].awaits THEN "pending"
                        ELSE "returned",
              invoked |-> command.handler, thrown |-> NoError,
              opSignal |-> IF Handlers[command.handler].awaits
                           THEN HandlerSignal(command.handler, signal) ELSE NoSignal,
              handlerArgs |-> args, handlerSignal |-> signal]

\* handlerArgs and handlerSignal are the arguments the handler is called with
execute(reg, name, args, signal) ==
    LET command == get(reg, name)
    IN  IF command = Undefined
        THEN [state |-> "threw", invoked |-> "none", thrown |-> Error("Unknown command"),
              opSignal |-> NoSignal, handlerArgs |-> <<>>, handlerSignal |-> NoSignal]
        ELSE IF command.handler = "exitHandler"
        THEN [state |-> "exit", invoked |-> command.handler, thrown |-> NoError,
              opSignal |-> NoSignal, handlerArgs |-> args, handlerSignal |-> signal]
        ELSE IF ArgError(command.handler, args) # NoError
        THEN [state |-> "threw", invoked |-> command.handler,
              thrown |-> ArgError(command.handler, args), opSignal |-> NoSignal,
              handlerArgs |-> args, handlerSignal |-> signal]
        ELSE IF ~Handlers[command.handler].awaits
        THEN [state |-> "returned", invoked |-> command.handler, thrown |-> NoError,
              opSignal |-> NoSignal, handlerArgs |-> args, handlerSignal |-> signal]
        ELSE [state |-> "pending", invoked |-> command.handler, thrown |-> NoError,
              opSignal |-> HandlerSignal(command.handler, signal),
              handlerArgs |-> args, handlerSignal |-> signal]

(***************************************************************************)
(* The part of CLI.handleInput that precedes the confirmation.             *)
(*   "empty"    nothing to do                                              *)
(*   "exit"     the literal .exit line                                     *)
(*   "threw"    empty or unknown command                                   *)
(*   "confirm"  the command needs the confirmation sub-prompt              *)
(*   "execute"  the command is executed directly                           *)
(***************************************************************************)
Resolve(reg, input) ==
    LET parsed == parseCommandWithQuotes(input)
    IN  IF input = <<>>
        THEN [state |-> "empty", command |-> <<>>, args |-> <<>>, thrown |-> NoError]
        ELSE IF input = n_dot_exit
        THEN [state |-> "exit", command |-> input, args |-> <<>>, thrown |-> NoError]
        ELSE IF parsed.command = <<>>
        THEN [state |-> "threw", command |-> <<>>, args |-> <<>>,
              thrown |-> Error("Empty command")]
        ELSE IF ~has(reg, parsed.command)
        THEN [state |-> "threw", command |-> parsed.command, args |-> parsed.args,
              thrown |-> Error("Invalid command.")]
        ELSE IF requiresConfirmation(reg, parsed.command)
        THEN [state |-> "confirm", command |-> parsed.command, args |-> parsed.args,
              thrown |-> NoError]
        ELSE [state |-> "execute", command |-> parsed.command, args |-> parsed.args,
              thrown |-> NoError]

(***************************************************************************)
(* FileManager: one call of a cancellable operation.  The file system is   *)
(* the kind of each path the call names: "src" the source (or search)      *)
(* path, "destDir" the destination directory of copyFile and moveFile,     *)
(* "dest" the file the operation writes.  signal is "none" when the caller *)
(* passed no AbortSignal, "live" or "aborted" otherwise.                   *)
(***************************************************************************)
Ops == { "findFiles", "grep", "readFile", "copyFile", "moveFile", "calculateHash",
         "compressFile", "decompressFile" }

Paths == { "src", "destDir", "dest" }

FileSystems ==
    { fs \in [Paths -> {"absent", "file", "dir"}] :
        /\ fs["destDir"] # "file"
        /\ fs["dest"] # "dir"
        /\ (fs["dest"] = "file" => fs["destDir"] = "dir") }

NoOperation ==
    [op |-> "none", signal |-> "none", fs |-> [p \in Paths |-> "absent"], pc |-> "idle",
     result |-> "none", changes |-> {}, preAborted |-> FALSE, midAbort |-> FALSE,
     unlinkFailed |-> FALSE]

\* utils/validation: fileExists, directoryExists
fileExists(fs, p) == fs[p] = "file"

directoryExists(fs, p) == fs[p] = "dir"

\* signal?.aborted
Aborted(signal) == signal = "aborted"

\* the call ends: it throws (result is the name of the failure) or returns
Throw(f, name) == [f EXCEPT !.pc = "done", !.result = name]

Return(f) == [f EXCEPT !.pc = "done", !.result = "returned"]

\* createWriteStream(path): the file is created, or truncated if it exists
createWriteStream(f, p) ==
    [f EXCEPT !.fs[p] = "file",
              !.changes = @ \cup {<<IF f.fs[p] = "file" THEN "truncate" ELSE "create", p>>}]

\* fs.promises.unlink(path) when it succeeds
unlink(f, p) == [f EXCEPT !.fs[p] = "absent", !.changes = @ \cup {<<"unlink", p>>}]

\* FileManager.findFiles with searchRecursive, up to the first readdir
findFiles(f) ==
    IF Aborted(f.signal) THEN Throw(f, "AbortError") ELSE [f EXCEPT !.pc = "walk"]

\* FileManager.grepFile: reads the file, takes no signal
grepFile(f) == Return(f)

\* FileManager.grep, up to the first readdir of grepRecursive
grep(f) ==
    IF f.fs["src"] = "absent"
    THEN Throw(f, "Error")
    ELSE IF fileExists(f.fs, "src")
         THEN grepFile(f)
         ELSE IF Aborted(f.signal) THEN Throw(f, "AbortError") ELSE [f EXCEPT !.pc = "walk"]

\* FileManager.readFile, up to the read stream
readFile(f) ==
    IF ~fileExists(f.fs, "src")
    THEN Throw(f, "Error")
    ELSE IF Aborted(f.signal) THEN Throw(f, "AbortError") ELSE [f EXCEPT !.pc = "read"]

\* FileManager.calculateHash, up to the read stream
calculateHash(f) ==
    IF Aborted(f.signal)
    THEN Throw(f, "AbortError")
    ELSE IF ~fileExists(f.fs, "src") THEN Throw(f, "Error") ELSE [f EXCEPT !.pc = "read"]

\* a copyFile that does not look for an existing destination file
copyFile_overwrite(f) ==
    IF Aborted(f.signal)
    THEN Throw(f, "AbortError")
    ELSE IF ~fileExists(f.fs, "src")
    THEN Throw(f, "Error")
    ELSE IF ~directoryExists(f.fs, "destDir")
    THEN Throw(f, "Error")
    ELSE [createWriteStream(f, "dest") EXCEPT !.pc = "pipeline"]

\* FileManager.copyFile, up to the pipeline
copyFile(f) ==
    IF Aborted(f.signal)
    THEN Throw(f, "AbortError")
    ELSE IF ~fileExists(f.fs, "src")
    THEN Throw(f, "Error")
    ELSE IF ~directoryExists(f.fs, "destDir")
    THEN Throw(f, "Error")
    ELSE IF fileExists(f.fs, "dest")
    THEN Throw(f, "Error")
    ELSE [createWriteStream(f, "dest") EXCEPT !.pc = "pipeline"]

\* FileManager.moveFile begins with copyFile
moveFile(f) == copyFile(f)

\* FileManager.compressFile, up to the pipeline
compressFile(f) ==
    IF Aborted(f.signal)
    THEN Throw(f, "AbortError")
    ELSE IF ~fileExists(f.fs, "src")
    THEN Throw(f, "Error")
    ELSE [createWriteStream(f, "dest") EXCEPT !.pc = "pipeline"]

\* FileManager.decompressFile, up to the pipeline
decompressFile(f) ==
    IF Aborted(f.signal)
    THEN Throw(f, "AbortError")
    ELSE IF ~fileExists(f.fs, "src")
    THEN Throw(f, "Error")
    ELSE [createWriteStream(f, "dest") EXCEPT !.pc = "pipeline"]

\* an abort branch that throws without cleaning up
abortCleanup_noUnlink(f, unlinkOk) == Throw(f, "AbortError")

\* the catch block around the pipeline when signal.aborted: the destination is
\* unlinked, a failure of the unlink is ignored, and the AbortError is thrown

abortCleanup(f, unlinkOk) ==
    IF unlinkOk
    THEN Throw(unlink(f, "dest"), "AbortError")
    ELSE Throw([f EXCEPT !.unlinkFailed = TRUE], "AbortError")

\* FileManager.deleteFile
deleteFile(f, p) == IF ~fileExists(f.fs, p) THEN Throw(f, "Error") ELSE Return(unlink(f, p))

(***************************************************************************)
(* The input lines the model types.                                        *)
(***************************************************************************)
a_x == <<"x">>

n_nope == <<"n", "o", "p", "e">>

W1(c, a) == c \o <<SP>> \o a

ExitLines == { n_dot_exit, n_exit, n_quit, n_q }

ConfirmLines == { W1(n_rm, a_x), W1(n_del, a_x), W1(n_rd, a_x) }

LongRunningLines == { W1(n_find, a_x), W1(n_hash, a_x) }

OtherLines == { <<SP, TAB>>, <<DQ, DQ>>, n_nope, n_up, n_find }

InputLines == ExitLines \cup ConfirmLines \cup LongRunningLines \cup OtherLines

\* what the 'line' listener makes of each input line: the line is trimmed, then
\* CLI.handleInput resolves it
Resolved == [input \in InputLines |-> Resolve(registry, Trim(input))]

(***************************************************************************)
(* State of the dispatch loop.                                             *)
(***************************************************************************)
\* first Date.now() of the session; lastCtrlCTime starts at 0
StartTime == 5000

MaxTime == StartTime + MaxInterrupts * DOUBLE_CTRL_C_THRESHOLD_MS

\* milliseconds between an interrupt and the event before it
Delays == { DOUBLE_CTRL_C_THRESHOLD_MS - 1, DOUBLE_CTRL_C_THRESHOLD_MS }

Slots == 1 .. MaxRuns

IdleRun ==
    [pc |-> "idle", command |-> <<>>, args |-> <<>>, signal |-> NoSignal,
     opSignal |-> NoSignal]

\* an interface on which setupReadlineHandlers ran twice
NewInterface_handlersTwice ==
    [null |-> FALSE, closed |-> FALSE, lineListeners |-> 2, sigintListeners |-> 2]

\* readline.createInterface followed by setupReadlineHandlers
NewInterface == [null |-> FALSE, closed |-> FALSE, lineListeners |-> 1, sigintListeners |-> 1]

RlOpen == ~rl.null /\ ~rl.closed

Busy == { r \in Slots : runs[r].pc # "idle" }

FreeSlot == CHOOSE r \in Slots : runs[r].pc = "idle" /\ \A q \in Slots : q < r => runs[q].pc # "idle"

NoEvent ==
    [kind |-> "none", command |-> <<>>, answer |-> "none", state |-> "none",
     invoked |-> "none", signal |-> NoSignal, opSignal |-> NoSignal, thrown |-> NoError,
     gap |-> 0, out |-> <<>>]

\* new AbortController() in the invocation that occupies slot r: every pending
\* invocation holds a controller of its own, so the object is named after the slot
NewAbortController(r) == r

\* CLI.showPrompt
showPrompt == << <<"prompt">> >>

\* the lines CLI.exit prints
farewell == << <<"farewell">> >>

\* the tail of the 'line' listener: the prompt is shown unless a confirmation is active
PromptUnless(prompting) == IF prompting THEN <<>> ELSE showPrompt

\* no call has been made on commandRegistry yet
NoExecution ==
    [state |-> "none", invoked |-> "none", thrown |-> NoError, opSignal |-> NoSignal,
     handlerArgs |-> <<>>, handlerSignal |-> NoSignal]

NoCall ==
    [op |-> "none", name |-> <<>>, target |-> <<>>, handler |-> "undefined",
     flag |-> "omitted", args |-> <<>>, signal |-> NoSignal, threw |-> FALSE, found |-> Undefined,
     answer |-> FALSE, execution |-> NoExecution, registered |-> {}, latest |-> <<>>,
     cleared |-> [commands |-> {}, aliases |-> {}]]

\* no parseCommandWithQuotes call is under way; opened is where the last quoted
\* section was opened and the values of result and current at that point
NoScan ==
    [pc |-> "idle", input |-> <<>>, i |-> 1, result |-> <<>>, current |-> <<>>,
     inQuotes |-> FALSE, quoteChar |-> "", branch |-> "none",
     opened |-> [at |-> 0, result |-> <<>>, current |-> <<>>],
     parsed |-> Parsed(<<>>), tokens |-> <<>>]

\* no parseFlags / parseArgs call has been made
NoFlagsCall ==
    [fn |-> "none", args |-> <<>>, flags |-> <<>>, remaining |-> <<>>, username |-> <<>>]

\* the home directory and the working directory; op is the last FileManager call
\* that moved or tried to move, from the working directory before it
NoNavigation ==
    [homeDir |-> <<"/">>, cwd |-> <<"/">>, op |-> "none", moved |-> FALSE,
     from |-> <<"/">>]

\* no findFiles / grep call has been made
NoWalk ==
    [op |-> "none", matching |-> {}, unreadable |-> {}, signal |-> "none", pc |-> "idle",
     stack |-> <<>>, results |-> <<>>, processed |-> <<>>, read |-> <<>>,
     result |-> "none"]

InitCLI ==
    /\ rl = NullInterface
    /\ isRunning = FALSE
    /\ isPrompting = FALSE
    /\ isExecutingCommand = FALSE
    /\ currentAbortController = NoController
    /\ lastCtrlCTime = 0
    /\ now = StartTime
    /\ lastSignal = 0
    /\ aborted = {}
    /\ runs = [r \in Slots |-> IdleRun]
    /\ exited = FALSE
    /\ exitCode = NoExitCode
    /\ ev = NoEvent

Init ==
    /\ InitCLI
    /\ fm = NoOperation
    /\ commandRegistry = EmptyRegistry
    /\ call = NoCall
    /\ scan = NoScan
    /\ flagsCall = NoFlagsCall
    /\ nav = NoNavigation
    /\ walk = NoWalk

(***************************************************************************)
(* CLI.start                                                               *)
(***************************************************************************)
Start ==
    /\ ~exited
    /\ ~isRunning
    /\ rl = NullInterface
    /\ isRunning' = TRUE
    /\ rl' = NewInterface
    /\ ev' = [NoEvent EXCEPT !.kind = "start", !.out = showPrompt]
    /\ UNCHANGED <<isPrompting, isExecutingCommand, currentAbortController, lastCtrlCTime,
                   now, lastSignal, aborted, runs, exited, exitCode, fm, commandRegistry, call, scan,
                   flagsCall, nav, walk>>

(***************************************************************************)
(* CLI.exit: farewell, rl.close() (whose 'close' listener clears isRunning *)
(* unless a confirmation is active), isRunning = false, process.exit(0).   *)
(***************************************************************************)
Exit(rlNow) ==
    /\ rl' = IF rlNow.null THEN rlNow ELSE [rlNow EXCEPT !.closed = TRUE]
    /\ isRunning' = FALSE
    /\ exited' = TRUE
    /\ exitCode' = 0

(***************************************************************************)
(* The end of one invocation of the 'line' listener: handleInput's catch   *)
(* block for a thrown failure, then the prompt unless a confirmation is    *)
(* active.  A failure that left handleInput would reject the listener's    *)
(* promise, which ends the process with exit code 1.                       *)
(***************************************************************************)
Finish(e, thrown, notice, rlNow, prompting) ==
    LET c == IF thrown = NoError THEN [out |-> <<>>, escapes |-> FALSE]
                                 ELSE handleInputCatch(thrown)
    IN  /\ rl' = rlNow
        /\ isRunning' = isRunning
        /\ IF c.escapes
           THEN /\ exited' = TRUE
                /\ exitCode' = 1
                /\ ev' = [e EXCEPT !.state = "crash", !.thrown = thrown,
                                   !.out = notice \o c.out]
           ELSE /\ UNCHANGED <<exited, exitCode>>
                /\ ev' = [e EXCEPT !.thrown = thrown,
                                   !.out = notice \o c.out \o PromptUnless(prompting)]

(***************************************************************************)
(* The execution part of CLI.handleInput, from the creation of the         *)
(* AbortController to the first suspension of the handler; r is the slot   *)
(* the invocation occupies if it suspends, rlNow the interface installed   *)
(* at that point.                                                          *)
(***************************************************************************)
Execute(r, e, command, args, rlNow) ==
    LET id == NewAbortController(r)
        x  == execute(registry, command, args, id)
        ex == [e EXCEPT !.state = x.state, !.invoked = x.invoked, !.signal = id,
                        !.opSignal = x.opSignal]
    IN  /\ CASE x.state = "exit" ->
                  /\ Exit(rlNow)
                  /\ currentAbortController' = id
                  /\ isExecutingCommand' = TRUE
                  /\ runs' = [runs EXCEPT ![r] = IdleRun]
                  /\ aborted' = aborted
                  /\ ev' = [ex EXCEPT !.out = farewell]
             [] x.state = "pending" ->
                  /\ currentAbortController' = id
                  /\ isExecutingCommand' = TRUE
                  /\ runs' = [runs EXCEPT ![r] =
                                [pc |-> "executing", command |-> <<>>, args |-> <<>>,
                                 signal |-> id, opSignal |-> x.opSignal]]
                  /\ aborted' = aborted
                  /\ ev' = ex
                  /\ rl' = rlNow
                  /\ UNCHANGED <<isRunning, exited, exitCode>>
             [] OTHER ->
                  \* the handler returned or threw: the finally block, then the catch
                  /\ currentAbortController' = NoController
                  /\ isExecutingCommand' = FALSE
                  /\ runs' = [runs EXCEPT ![r] = IdleRun]
                  /\ aborted' = aborted
                  /\ Finish(ex, x.thrown, <<>>, rlNow, FALSE)

(***************************************************************************)
(* The 'line' listener of setupReadlineHandlers with CLI.handleInput, up   *)
(* to the first suspension.                                                *)
(***************************************************************************)
Line(input) ==
    /\ ~exited
    /\ RlOpen
    /\ ~isPrompting
    /\ Busy # Slots
    /\ LET res == Resolved[input]
           r   == FreeSlot
           e   == [NoEvent EXCEPT !.kind = "line", !.state = res.state,
                                  !.command = Resolved[input].command]
       IN  CASE res.state = "exit" ->
                  /\ Exit(rl)
                  /\ ev' = [e EXCEPT !.out = farewell]
                  /\ UNCHANGED <<isPrompting, isExecutingCommand, currentAbortController,
                                 aborted, runs>>
            [] res.state = "confirm" ->
                  \* confirmAction: isPrompting = true, rl.close(), rl = null, prompt shown
                  /\ isPrompting' = TRUE
                  /\ rl' = NullInterface
                  /\ runs' = [runs EXCEPT ![r] =
                                [IdleRun EXCEPT !.pc = "confirming",
                                                !.command = res.command, !.args = res.args]]
                  /\ ev' = [e EXCEPT !.out = << <<"confirm?">> >>]
                  /\ UNCHANGED <<isRunning, isExecutingCommand, currentAbortController,
                                 aborted, exited, exitCode>>
            [] res.state = "execute" ->
                  /\ Execute(r, e, res.command, res.args, rl)
                  /\ UNCHANGED <<isPrompting>>
            [] OTHER ->
                  \* an empty line, an empty command or an unknown command
                  /\ Finish(e, res.thrown, <<>>, rl, FALSE)
                  /\ UNCHANGED <<isPrompting, isExecutingCommand, currentAbortController,
                                 aborted, runs>>
    /\ UNCHANGED <<lastCtrlCTime, now, lastSignal, fm, commandRegistry, call, scan,
                   flagsCall, nav, walk>>

(***************************************************************************)
(* A 'line' event delivered while the confirmation sub-prompt is active:   *)
(* the listener returns at once.                                           *)
(***************************************************************************)
\* a listener that shows the prompt for a line it ignores
LineDropped_showPrompt(input) ==
    /\ ~exited
    /\ isPrompting
    /\ ev' = [NoEvent EXCEPT !.kind = "line", !.state = "dropped",
                             !.command = Resolved[input].command, !.out = showPrompt]
    /\ UNCHANGED <<rl, isRunning, isPrompting, isExecutingCommand, currentAbortController,
                   lastCtrlCTime, now, lastSignal, aborted, runs, exited,
                   exitCode, fm, commandRegistry, call, scan,
                   flagsCall, nav, walk>>

LineDropped(input) ==
    /\ ~exited
    /\ isPrompting
    /\ ev' = [NoEvent EXCEPT !.kind = "line", !.state = "dropped",
                             !.command = Resolved[input].command]
    /\ UNCHANGED <<rl, isRunning, isPrompting, isExecutingCommand, currentAbortController,
                   lastCtrlCTime, now, lastSignal, aborted, runs, exited,
                   exitCode, fm, commandRegistry, call, scan,
                   flagsCall, nav, walk>>

(***************************************************************************)
(* The confirmation prompt of invocation r settles: CLI.confirmAction's    *)
(* finally block installs a new interface and clears isPrompting, then     *)
(* handleInput goes on (answer "yes"), prints the cancellation notice      *)
(* ("no") or catches the prompt's rejection ("rejected").                  *)
(***************************************************************************)
ConfirmSettle(r, answer) ==
    /\ ~exited
    /\ runs[r].pc = "confirming"
    /\ isPrompting' = FALSE
    /\ LET e == [NoEvent EXCEPT !.kind = "confirm", !.answer = answer,
                                !.command = runs[r].command]
       IN  CASE answer = "yes" ->
                  Execute(r, e, runs[r].command, runs[r].args, NewInterface)
            [] answer = "no" ->
                  /\ runs' = [runs EXCEPT ![r] = IdleRun]
                  /\ Finish([e EXCEPT !.state = "cancelled"], NoError,
                            << <<"Operation cancelled.">> >>, NewInterface, FALSE)
                  /\ UNCHANGED <<isExecutingCommand, currentAbortController, aborted>>
            [] answer = "rejected" ->
                  /\ runs' = [runs EXCEPT ![r] = IdleRun]
                  /\ Finish([e EXCEPT !.state = "threw"], PromptError, <<>>,
                            NewInterface, FALSE)
                  /\ UNCHANGED <<isExecutingCommand, currentAbortController, aborted>>
    /\ UNCHANGED <<lastCtrlCTime, now, lastSignal, fm, commandRegistry, call, scan,
                   flagsCall, nav, walk>>

(***************************************************************************)
(* The handler of invocation r settles.  An operation fails with the       *)
(* AbortError only when it was handed a signal and that signal is aborted. *)
(* handleInput's finally block clears the executing flag and the current   *)
(* controller, its catch block reports the failure, and the 'line'         *)
(* listener shows the prompt unless a confirmation is active.              *)
(***************************************************************************)
Outcomes == { NoError, Error("Operation failed"), AbortError }

CanSettle(run, outcome) ==
    outcome = AbortError => (run.opSignal # NoSignal /\ run.opSignal \in aborted)

\* a completion without handleInput's finally block
Settle_noFinally(r, outcome) ==
    /\ ~exited
    /\ runs[r].pc = "executing"
    /\ CanSettle(runs[r], outcome)
    /\ runs' = [runs EXCEPT ![r] = IdleRun]
    /\ Finish([NoEvent EXCEPT !.kind = "settle", !.signal = runs[r].signal,
                              !.opSignal = runs[r].opSignal,
                              !.state = IF outcome = NoError THEN "returned" ELSE "threw"],
              outcome, <<>>, rl, isPrompting)
    /\ aborted' = aborted \ {runs[r].signal}
    /\ UNCHANGED <<isExecutingCommand, currentAbortController, isPrompting, lastCtrlCTime,
                   now, lastSignal, fm, commandRegistry, call, scan, flagsCall, nav, walk>>

Settle(r, outcome) ==
    /\ ~exited
    /\ runs[r].pc = "executing"
    /\ CanSettle(runs[r], outcome)
    /\ isExecutingCommand' = FALSE
    /\ currentAbortController' = NoController
    /\ runs' = [runs EXCEPT ![r] = IdleRun]
    /\ Finish([NoEvent EXCEPT !.kind = "settle", !.signal = runs[r].signal,
                              !.opSignal = runs[r].opSignal,
                              !.state = IF outcome = NoError THEN "returned" ELSE "threw"],
              outcome, <<>>, rl, isPrompting)
    /\ aborted' = aborted \ {runs[r].signal}
    /\ UNCHANGED <<isPrompting, lastCtrlCTime, now, lastSignal, fm, commandRegistry, call, scan,
                   flagsCall, nav, walk>>

(***************************************************************************)
(* CLI.handleCtrlC, called by the 'SIGINT' listener of the interface, dt   *)
(* milliseconds after the previous event.                                  *)
(***************************************************************************)
IsDoubleCtrlC(time, last) == time - last < DOUBLE_CTRL_C_THRESHOLD_MS

Interrupt(dt) ==
    /\ ~exited
    /\ RlOpen
    /\ now + dt <= MaxTime
    /\ now' = now + dt
    /\ LET e == [NoEvent EXCEPT !.kind = "sigint", !.gap = (now + dt) - lastSignal]
       IN  IF IsDoubleCtrlC(now + dt, lastCtrlCTime)
           THEN /\ Exit(rl)
                /\ ev' = [e EXCEPT !.state = "exit", !.out = farewell]
                /\ UNCHANGED <<lastCtrlCTime, aborted>>
           ELSE /\ lastCtrlCTime' = now + dt
                /\ IF isExecutingCommand /\ currentAbortController # NoController
                   THEN /\ aborted' = aborted \cup {currentAbortController}
                        /\ ev' = [e EXCEPT !.state = "aborted",
                                           !.signal = currentAbortController,
                                           !.out = << <<"taskInterrupted">> >>]
                   ELSE /\ aborted' = aborted
                        /\ ev' = [e EXCEPT !.state = "hint",
                                           !.out = << <<"interruptHint">> >>]
                /\ UNCHANGED <<rl, isRunning, exited, exitCode>>
    /\ lastSignal' = now + dt
    /\ UNCHANGED <<isPrompting, isExecutingCommand, currentAbortController, runs, fm, commandRegistry, call, scan,
                   flagsCall, nav, walk>>

(***************************************************************************)
(* An interrupt while the confirmation sub-prompt is active: CLI.rl is     *)
(* closed and null, so no 'SIGINT' listener of the CLI runs; the signal    *)
(* goes to the prompt's own interface.                                     *)
(***************************************************************************)
PromptInterrupt(dt) ==
    /\ ~exited
    /\ isPrompting
    /\ rl.null
    /\ now + dt <= MaxTime
    /\ now' = now + dt
    /\ lastSignal' = now + dt
    /\ ev' = [NoEvent EXCEPT !.kind = "sigint", !.state = "prompt",
                             !.gap = (now + dt) - lastSignal]
    /\ UNCHANGED <<rl, isRunning, isPrompting, isExecutingCommand, currentAbortController,
                   lastCtrlCTime, aborted, runs, exited, exitCode, fm, commandRegistry, call, scan,
                   flagsCall, nav, walk>>

(***************************************************************************)
(* Ctrl+L (setupKeyboardShortcuts): clear the screen and show the prompt,  *)
(* unless a confirmation is active.                                        *)
(***************************************************************************)
CtrlL ==
    /\ ~exited
    /\ isRunning
    /\ ev' = [NoEvent EXCEPT !.kind = "keypress",
                             !.out = IF isPrompting THEN <<>>
                                     ELSE << <<"clear">> >> \o showPrompt]
    /\ UNCHANGED <<rl, isRunning, isPrompting, isExecutingCommand, currentAbortController,
                   lastCtrlCTime, now, lastSignal, aborted, runs, exited,
                   exitCode, fm, commandRegistry, call, scan,
                   flagsCall, nav, walk>>

(***************************************************************************)
(* The FileManager operation is called: it runs to its first suspension.   *)
(***************************************************************************)
FmCall ==
    /\ fm.pc = "call"
    /\ LET f == [fm EXCEPT !.preAborted = Aborted(fm.signal)]
       IN  fm' = CASE fm.op = "findFiles"      -> findFiles(f)
                   [] fm.op = "grep"           -> grep(f)
                   [] fm.op = "readFile"       -> readFile(f)
                   [] fm.op = "copyFile"       -> copyFile(f)
                   [] fm.op = "moveFile"       -> moveFile(f)
                   [] fm.op = "calculateHash"  -> calculateHash(f)
                   [] fm.op = "compressFile"   -> compressFile(f)
                   [] fm.op = "decompressFile" -> decompressFile(f)
    /\ UNCHANGED <<cliVars, flagsCall, nav, walk, commandRegistry, call, scan>>

(***************************************************************************)
(* The caller's controller is aborted while the operation is pending.      *)
(***************************************************************************)
FmAbort ==
    /\ fm.pc \in {"walk", "read", "pipeline"}
    /\ fm.signal = "live"
    /\ fm' = [fm EXCEPT !.signal = "aborted", !.midAbort = TRUE]
    /\ UNCHANGED <<cliVars, flagsCall, nav, walk, commandRegistry, call, scan>>

(***************************************************************************)
(* searchRecursive / grepRecursive go on: the signal is checked before     *)
(* every entry, and the walk ends when no entry is left.                   *)
(***************************************************************************)
FmWalk ==
    /\ fm.pc = "walk"
    /\ fm' = IF Aborted(fm.signal) THEN Throw(fm, "AbortError") ELSE Return(fm)
    /\ UNCHANGED <<cliVars, flagsCall, nav, walk, commandRegistry, call, scan>>

(***************************************************************************)
(* The read stream of readFile / calculateHash ends, fails, or the abort   *)
(* listener rejects the promise.                                           *)
(***************************************************************************)
FmRead(streamOk) ==
    /\ fm.pc = "read"
    /\ fm' = IF Aborted(fm.signal)
             THEN Throw(fm, "AbortError")
             ELSE IF streamOk THEN Return(fm) ELSE Throw(fm, "Error")
    /\ UNCHANGED <<cliVars, flagsCall, nav, walk, commandRegistry, call, scan>>

\* a pipeline step whose moveFile removes the source however the copy ended
FmPipeline_deleteAlways(streamOk, unlinkOk) ==
    /\ fm.pc = "pipeline"
    /\ LET f == IF fm.op = "moveFile" THEN unlink(fm, "src") ELSE fm
       IN  fm' = IF Aborted(fm.signal)
                 THEN abortCleanup(f, unlinkOk)
                 ELSE IF ~streamOk THEN Throw(f, "Error") ELSE Return(f)
    /\ UNCHANGED <<cliVars, flagsCall, nav, walk, commandRegistry, call, scan>>

(***************************************************************************)
(* The stream pipeline of copyFile / moveFile / compressFile /             *)
(* decompressFile settles.  With an aborted signal it rejects and the      *)
(* catch block cleans up; otherwise it ends or fails.  moveFile goes on    *)
(* with deleteFile on the source.                                          *)
(***************************************************************************)
FmPipeline(streamOk, unlinkOk) ==
    /\ fm.pc = "pipeline"
    /\ fm' = IF Aborted(fm.signal)
             THEN abortCleanup(fm, unlinkOk)
             ELSE IF ~streamOk
                  THEN Throw(fm, "Error")
                  ELSE IF fm.op = "moveFile" THEN deleteFile(fm, "src") ELSE Return(fm)
    /\ UNCHANGED <<cliVars, flagsCall, nav, walk, commandRegistry, call, scan>>

Answers == { "yes", "no", "rejected" }

Next ==
    \/ Start
    \/ \E input \in InputLines : Line(input)
    \/ \E input \in InputLines : LineDropped(input)
    \/ \E r \in Slots, answer \in Answers : ConfirmSettle(r, answer)
    \/ \E r \in Slots, outcome \in Outcomes : Settle(r, outcome)
    \/ \E dt \in Delays : Interrupt(dt)
    \/ \E dt \in Delays : PromptInterrupt(dt)
    \/ CtrlL

Spec == Init /\ [][Next]_vars

(***************************************************************************)
(* FileManager operations on their own: every operation, called with no    *)
(* signal, a live signal or an aborted one, on every file system.          *)
(***************************************************************************)
InitFM ==
    /\ InitCLI
    /\ fm \in { [NoOperation EXCEPT !.op = op, !.signal = signal, !.fs = fs,
                                     !.pc = "call", !.result = "pending"] :
                   op \in Ops, signal \in {"none", "live", "aborted"}, fs \in FileSystems }
    /\ commandRegistry = EmptyRegistry
    /\ call = NoCall
    /\ scan = NoScan
    /\ flagsCall = NoFlagsCall
    /\ nav = NoNavigation
    /\ walk = NoWalk

NextFM ==
    \/ FmCall
    \/ FmAbort
    \/ FmWalk
    \/ \E streamOk \in BOOLEAN : FmRead(streamOk)
    \/ \E streamOk \in BOOLEAN, unlinkOk \in BOOLEAN : FmPipeline(streamOk, unlinkOk)

SpecFM == InitFM /\ [][NextFM]_vars

(***************************************************************************)
(* A CommandRegistry on its own: any sequence of register, registerAlias,  *)
(* clear, get, has, requiresConfirmation and execute calls, over a few     *)
(* names and handlers.  call.registered and call.latest are the history of *)
(* the calls: the names registered since the last clear, and the handler   *)
(* and the flag argument each was registered with last.                    *)
(* call.cleared holds the command names and the aliases the last clear     *)
(* removed, as long as nothing has been registered since.                  *)
(***************************************************************************)
RegistryNames == { n_cat, n_type }

\* the names looked up: n_nope is never registered
LookupNames == RegistryNames \cup { n_nope }

\* register's parameter requiresConfirmation: boolean = false; flag is the argument
\* of the call, "omitted" when it is left out
FlagArgument(flag) == flag = "true"

Register(name, handler, flag) ==
    /\ commandRegistry' = register(commandRegistry, name, handler, FlagArgument(flag))
    /\ call' = [NoCall EXCEPT !.op = "register", !.name = name, !.handler = handler,
                              !.flag = flag,
                              !.registered = call.registered \cup {name},
                              !.latest = (name :> [handler |-> handler, flag |-> flag])
                                           @@ call.latest]
    /\ UNCHANGED <<cliVars, flagsCall, nav, walk, fm, scan>>

RegisterAlias(alias, commandName) ==
    /\ commandRegistry' = registerAlias(commandRegistry, alias, commandName)
    /\ call' = [NoCall EXCEPT !.op = "registerAlias", !.name = alias, !.target = commandName,
                              !.threw = registerAliasThrows(commandRegistry, commandName),
                              !.registered = call.registered, !.latest = call.latest,
                              !.cleared = call.cleared]
    /\ UNCHANGED <<cliVars, flagsCall, nav, walk, fm, scan>>

Clear ==
    /\ commandRegistry' = clear(commandRegistry)
    /\ call' = [NoCall EXCEPT !.op = "clear",
                              !.cleared = [commands |-> DOMAIN commandRegistry.commands,
                                           aliases |-> DOMAIN commandRegistry.aliases]]
    /\ UNCHANGED <<cliVars, flagsCall, nav, walk, fm, scan>>

Get(name) ==
    /\ call' = [NoCall EXCEPT !.op = "get", !.name = name,
                              !.found = get(commandRegistry, name),
                              !.registered = call.registered, !.latest = call.latest,
                              !.cleared = call.cleared]
    /\ UNCHANGED <<cliVars, flagsCall, nav, walk, fm, scan, commandRegistry>>

Has(name) ==
    /\ call' = [NoCall EXCEPT !.op = "has", !.name = name,
                              !.answer = has(commandRegistry, name),
                              !.registered = call.registered, !.latest = call.latest,
                              !.cleared = call.cleared]
    /\ UNCHANGED <<cliVars, flagsCall, nav, walk, fm, scan, commandRegistry>>

RequiresConfirmation(name) ==
    /\ call' = [NoCall EXCEPT !.op = "requiresConfirmation", !.name = name,
                              !.answer = requiresConfirmation(commandRegistry, name),
                              !.registered = call.registered, !.latest = call.latest,
                              !.cleared = call.cleared]
    /\ UNCHANGED <<cliVars, flagsCall, nav, walk, fm, scan, commandRegistry>>

RegistryExecute(name, args, signal) ==
    /\ call' = [NoCall EXCEPT !.op = "execute", !.name = name, !.args = args,
                              !.signal = signal,
                              !.execution = execute(commandRegistry, name, args, signal),
                              !.threw = execute(commandRegistry, name, args, signal).state
                                            = "threw",
                              !.registered = call.registered, !.latest = call.latest,
                              !.cleared = call.cleared]
    /\ UNCHANGED <<cliVars, flagsCall, nav, walk, fm, scan, commandRegistry>>

NextRegistry ==
    \/ \E name \in RegistryNames, handler \in { "upHandler", "catHandler" },
          flag \in { "omitted", "true", "false" } :
          Register(name, handler, flag)
    \/ \E alias \in RegistryNames, commandName \in LookupNames :
          RegisterAlias(alias, commandName)
    \/ Clear
    \/ \E name \in LookupNames : Get(name)
    \/ \E name \in LookupNames : Has(name)
    \/ \E name \in LookupNames : RequiresConfirmation(name)
    \/ \E name \in LookupNames, args \in { <<>>, <<a_x>> },
          signal \in { NoSignal, NewAbortController(1) } :
          RegistryExecute(name, args, signal)

SpecRegistry == Init /\ [][NextRegistry]_vars

(***************************************************************************)
(* parseCommandWithQuotes and tokenize on their own: every input string of *)
(* at most MaxLen characters over an ordinary character, the tab, the      *)
(* space, the two quotes and the backslash.  The loop is taken one         *)
(* iteration at a time.                                                    *)
(***************************************************************************)
Alphabet == { "a", TAB, SP, DQ, SQ, BS }

Inputs == UNION { [1 .. n -> Alphabet] : n \in 0 .. MaxLen }

InitParser ==
    /\ InitCLI
    /\ fm = NoOperation
    /\ commandRegistry = EmptyRegistry
    /\ call = NoCall
    /\ scan \in { [NoScan EXCEPT !.pc = "loop", !.input = input] : input \in Inputs }
    /\ flagsCall = NoFlagsCall
    /\ nav = NoNavigation
    /\ walk = NoWalk

\* one iteration of the for loop
ParseStep ==
    /\ scan.pc = "loop"
    /\ scan.i <= Len(scan.input)
    /\ LET s == ScanChar(scan.input, scan.i, scan.result, scan.current, scan.inQuotes,
                         scan.quoteChar)
       IN  scan' = [scan EXCEPT !.i = s.i, !.result = s.result, !.current = s.current,
                                !.inQuotes = s.inQuotes, !.quoteChar = s.quoteChar,
                                !.branch = s.branch,
                                !.opened = IF s.branch = "open"
                                           THEN [at |-> scan.i, result |-> scan.result,
                                                 current |-> scan.current]
                                           ELSE @]
    /\ UNCHANGED <<cliVars, flagsCall, nav, walk, fm, commandRegistry, call>>

\* the loop is left: the last argument is pushed and the function returns; tokens is
\* what tokenize gives for the same input
ParseReturn ==
    /\ scan.pc = "loop"
    /\ scan.i > Len(scan.input)
    /\ scan' = [scan EXCEPT !.pc = "done",
                            !.result = Flush(scan.result, scan.current),
                            !.branch = "return",
                            !.parsed = parseCommandWithQuotes(scan.input),
                            !.tokens = tokenize(scan.input)]
    /\ UNCHANGED <<cliVars, flagsCall, nav, walk, fm, commandRegistry, call>>

NextParser ==
    \/ ParseStep
    \/ ParseReturn

SpecParser == InitParser /\ [][NextParser]_vars

(***************************************************************************)
(* parseFlags and parseArgs on their own: every argument list of at most   *)
(* MaxArgs tokens.                                                         *)
(***************************************************************************)
FlagTokens ==
    { <<"-", "n">>, <<"-">>, <<"x">>, <<>>, <<"-", "-", "k">>,
      <<"-", "-", "k", "=", "a">>, <<"-", "-", "k", "=", "a", "=", "b">>,
      <<"-", "-", "u", "s", "e", "r", "n", "a", "m", "e", "=", "a", "=", "b">> }

InitFlags ==
    /\ InitCLI
    /\ fm = NoOperation
    /\ commandRegistry = EmptyRegistry
    /\ call = NoCall
    /\ scan = NoScan
    /\ nav = NoNavigation
    /\ walk = NoWalk
    /\ flagsCall \in { [NoFlagsCall EXCEPT !.args = args] :
                         args \in UNION { [1 .. n -> FlagTokens] : n \in 0 .. MaxArgs } }

ParseFlags ==
    /\ flagsCall.fn = "none"
    /\ flagsCall' = [flagsCall EXCEPT !.fn = "parseFlags",
                                      !.flags = parseFlags(flagsCall.args).flags,
                                      !.remaining = parseFlags(flagsCall.args).remaining]
    /\ UNCHANGED <<cliVars, walk, fm, commandRegistry, call, scan, nav>>

\* parseArgs reads process.argv.slice(2)
ParseArgs ==
    /\ flagsCall.fn = "none"
    /\ flagsCall' = [flagsCall EXCEPT !.fn = "parseArgs",
                                      !.flags = parseArgs(flagsCall.args).flags,
                                      !.username = parseArgs(flagsCall.args).username]
    /\ UNCHANGED <<cliVars, walk, fm, commandRegistry, call, scan, nav>>

NextFlags ==
    \/ ParseFlags
    \/ ParseArgs

SpecFlags == InitFlags /\ [][NextFlags]_vars

(***************************************************************************)
(* FileManager navigation on its own.  Paths are absolute POSIX paths;     *)
(* Directories are the directories that exist.  The constructor sets the   *)
(* home directory and changes into it.                                     *)
(***************************************************************************)
Directories ==
    { <<"/">>, <<"/", "u">>, <<"/", "u", "/", "d">>, <<"/", "u", "/", "d", "/", "e">>,
      <<"/", "u", "x">>, <<"/", "u", "x", "/", "d">>, <<"/", "v">> }

\* path.dirname of an absolute path
dirname(p) ==
    LET k == CHOOSE j \in 1 .. Len(p) : p[j] = "/" /\ \A l \in j + 1 .. Len(p) : p[l] # "/"
    IN  IF k = 1 THEN <<"/">> ELSE SubSeq(p, 1, k - 1)

navigateUp(n) ==
    LET currentDir == n.cwd
        parentDir == dirname(currentDir)
    IN  IF currentDir = n.homeDir \/ currentDir = parentDir
           \/ ~startsWith(currentDir, n.homeDir)
        THEN [n EXCEPT !.op = "navigateUp", !.moved = FALSE, !.from = currentDir]
        ELSE [n EXCEPT !.op = "navigateUp", !.moved = TRUE, !.from = currentDir,
                       !.cwd = parentDir]

InitNavigation ==
    /\ InitCLI
    /\ fm = NoOperation
    /\ commandRegistry = EmptyRegistry
    /\ call = NoCall
    /\ scan = NoScan
    /\ flagsCall = NoFlagsCall
    /\ walk = NoWalk
    /\ nav \in { [NoNavigation EXCEPT !.homeDir = h, !.cwd = h, !.from = h] :
                   h \in Directories }

NavigateUp ==
    /\ nav' = navigateUp(nav)
    /\ UNCHANGED <<cliVars, walk, fm, commandRegistry, call, scan, flagsCall>>

\* FileManager.changeDirectory to a directory that exists
ChangeDirectory(newPath) ==
    /\ nav' = [nav EXCEPT !.op = "changeDirectory", !.moved = TRUE, !.from = nav.cwd,
                          !.cwd = newPath]
    /\ UNCHANGED <<cliVars, walk, fm, commandRegistry, call, scan, flagsCall>>

NextNavigation ==
    \/ NavigateUp
    \/ \E newPath \in Directories : ChangeDirectory(newPath)

SpecNavigation == InitNavigation /\ [][NextNavigation]_vars

(***************************************************************************)
(* FileManager.findFiles and FileManager.grep on a directory, step by      *)
(* step.  The tree: directory 0 is the search path; its entries, in the    *)
(* order readdir gives them, are the directory 1 and the file 2; directory *)
(* 1 holds the directory 4 and the file 3; directory 4 holds the file 5.   *)
(* walk.matching are the entries whose name matches the pattern (for grep: *)
(* the files with a matching line), walk.unreadable the directories whose  *)
(* readdir fails.  walk.stack is the recursion: one frame per level, with  *)
(* the index of the next entry and what the level awaits.  walk.processed  *)
(* and walk.read list the entries processed and the directories read.      *)
(* The signal can only become aborted while the call awaits I/O.           *)
(***************************************************************************)
DirEntries == (0 :> <<1, 2>>) @@ (1 :> <<4, 3>>) @@ (4 :> <<5>>)

isDirectory(entry) == entry \in DOMAIN DirEntries

\* results.push placed at the front
push_front(results, entry) == <<entry>> \o results

\* results.push
push(results, entry) == Append(results, entry)

\* throw new DOMException("Operation aborted", "AbortError"): every level's catch
\* block throws it again, up to the caller
throwAbortError(w) == [w EXCEPT !.stack = <<>>, !.pc = "done", !.result = "AbortError"]

\* a level returns to the loop of the level above, or to the caller
returnFromLevel(w) ==
    IF Len(w.stack) = 1
    THEN [w EXCEPT !.stack = <<>>, !.pc = "done", !.result = "returned"]
    ELSE [w EXCEPT !.stack = SubSeq(@, 1, Len(@) - 1)]

\* a catch block that throws every error again
catchReaddirError_rethrow(w) == [w EXCEPT !.stack = <<>>, !.pc = "done", !.result = "Error"]

\* the catch block for an error that is no AbortError: the directory is skipped
catchReaddirError(w) == returnFromLevel(w)

\* searchRecursive / grepRecursive up to the readdir of dirPath
enterDirectory(w, dirPath) ==
    IF Aborted(w.signal)
    THEN throwAbortError(w)
    ELSE [w EXCEPT !.pc = "run",
                   !.read = Append(@, dirPath),
                   !.stack = Append(@, [dir |-> dirPath, next |-> 1, phase |-> "readdir"])]

\* one iteration of the for loop of searchRecursive, for the entry at the top frame
searchEntry(w) ==
    LET top == w.stack[Len(w.stack)]
        entry == DirEntries[top.dir][top.next]
        pushed == [w EXCEPT !.stack[Len(w.stack)].next = top.next + 1,
                            !.processed = Append(@, entry),
                            !.results = IF entry \in w.matching THEN push(@, entry) ELSE @]
    IN  IF Aborted(w.signal)
        THEN throwAbortError(w)
        ELSE IF isDirectory(entry) THEN enterDirectory(pushed, entry) ELSE pushed

\* one iteration of the for loop of grepRecursive, up to the await in it
grepEntry(w) ==
    LET top == w.stack[Len(w.stack)]
        entry == DirEntries[top.dir][top.next]
        taken == [w EXCEPT !.processed = Append(@, entry)]
    IN  IF Aborted(w.signal)
        THEN throwAbortError(w)
        ELSE IF isDirectory(entry)
             THEN enterDirectory([taken EXCEPT !.stack[Len(w.stack)].next = top.next + 1],
                                 entry)
             ELSE [taken EXCEPT !.stack[Len(w.stack)].phase = "grepFile"]

InitWalk ==
    /\ InitCLI
    /\ fm = NoOperation
    /\ commandRegistry = EmptyRegistry
    /\ call = NoCall
    /\ scan = NoScan
    /\ flagsCall = NoFlagsCall
    /\ nav = NoNavigation
    /\ walk \in { [NoWalk EXCEPT !.op = op, !.matching = matching,
                                 !.unreadable = unreadable, !.signal = signal,
                                 !.pc = "call", !.result = "pending"] :
                    op \in {"findFiles", "grep"}, matching \in SUBSET (1 .. 5),
                    unreadable \in SUBSET (DOMAIN DirEntries),
                    signal \in {"none", "live", "aborted"} }

\* findFiles calls searchRecursive at once; grep awaits getFileStats first
WalkCall ==
    /\ walk.pc = "call"
    /\ walk' = IF walk.op = "findFiles"
               THEN enterDirectory(walk, 0)
               ELSE [walk EXCEPT !.pc = "stat"]
    /\ UNCHANGED <<cliVars, fm, commandRegistry, call, scan, flagsCall, nav>>

\* grep: the search path is a directory
WalkStat ==
    /\ walk.pc = "stat"
    /\ walk' = enterDirectory(walk, 0)
    /\ UNCHANGED <<cliVars, fm, commandRegistry, call, scan, flagsCall, nav>>

\* fs.promises.readdir settles
WalkReaddir ==
    /\ walk.pc = "run"
    /\ walk.stack[Len(walk.stack)].phase = "readdir"
    /\ walk' = IF walk.stack[Len(walk.stack)].dir \in walk.unreadable
               THEN catchReaddirError(walk)
               ELSE [walk EXCEPT !.stack[Len(walk.stack)].phase = "loop"]
    /\ UNCHANGED <<cliVars, fm, commandRegistry, call, scan, flagsCall, nav>>

\* the for loop: the next entry, or the end of the directory
WalkEntry ==
    /\ walk.pc = "run"
    /\ walk.stack[Len(walk.stack)].phase = "loop"
    /\ LET top == walk.stack[Len(walk.stack)]
       IN  walk' = IF top.next > Len(DirEntries[top.dir])
                   THEN returnFromLevel(walk)
                   ELSE IF walk.op = "findFiles" THEN searchEntry(walk)
                        ELSE grepEntry(walk)
    /\ UNCHANGED <<cliVars, fm, commandRegistry, call, scan, flagsCall, nav>>

\* grepFile settles: it never throws; a file with matches is pushed
WalkGrepFile ==
    /\ walk.pc = "run"
    /\ walk.stack[Len(walk.stack)].phase = "grepFile"
    /\ LET top == walk.stack[Len(walk.stack)]
           entry == DirEntries[top.dir][top.next]
       IN  walk' = [walk EXCEPT !.stack[Len(walk.stack)].phase = "loop",
                                !.stack[Len(walk.stack)].next = top.next + 1,
                                !.results = IF entry \in walk.matching
                                            THEN push(@, entry) ELSE @]
    /\ UNCHANGED <<cliVars, fm, commandRegistry, call, scan, flagsCall, nav>>

\* controller.abort() while the call awaits getFileStats, readdir or grepFile
WalkAbort ==
    /\ walk.signal = "live"
    /\ \/ walk.pc = "stat"
       \/ walk.pc = "run" /\ walk.stack[Len(walk.stack)].phase \in {"readdir", "grepFile"}
    /\ walk' = [walk EXCEPT !.signal = "aborted"]
    /\ UNCHANGED <<cliVars, fm, commandRegistry, call, scan, flagsCall, nav>>

NextWalk ==
    \/ WalkCall
    \/ WalkStat
    \/ WalkReaddir
    \/ WalkEntry
    \/ WalkGrepFile
    \/ WalkAbort

SpecWalk == InitWalk /\ [][NextWalk]_vars

(***************************************************************************)
(* Properties of the dispatch loop.  ev is the event the last step handled *)
(* and what that step printed.                                             *)
(***************************************************************************)
ConfirmationCommands == { n_rm, n_del, n_delete, n_rmdir, n_rd }

ExitCommands == { n_dot_exit, n_exit, n_quit, n_q }

LongRunningCommands ==
    { n_find, n_search, n_grep, n_where, n_cat, n_cp, n_move, n_hash, n_md5, n_sha1,
      n_sha256, n_sha512, n_compress, n_decompress, n_brotli, n_gzip, n_deflate,
      n_gunzip, n_unbrotli, n_inflate }

Executing == { r \in Slots : runs[r].pc = "executing" }

ErrorLines(out) == { i \in 1 .. Len(out) : out[i][1] = "Error:" }

AwaitingLine == ~exited /\ RlOpen /\ ~isPrompting

AwaitingInput == ~exited /\ (RlOpen \/ isPrompting)

\* C1: the handler of a command that requires confirmation (by its name or by an
\* alias) is invoked only by the step in which the confirmation prompt answered
\* yes; when the answer is no, no handler is invoked, no AbortController is
\* created, the cancellation notice is printed and the loop awaits a line.
C1_ConfirmationGating ==
    /\ (ev.invoked # "none" /\ ev.command \in ConfirmationCommands)
          => (ev.kind = "confirm" /\ ev.answer = "yes")
    /\ (ev.kind = "confirm" /\ ev.answer = "no")
          => /\ ev.invoked = "none"
             /\ ev.signal = NoSignal
             /\ ev.out = << <<"Operation cancelled.">> >> \o showPrompt
             /\ AwaitingLine

C1_Witness ==
    /\ ev.kind = "confirm"
    /\ ev.answer = "yes"
    /\ ev.command = n_del
    /\ ev.invoked = "rmHandler"

\* C2: at most one invocation is in flight (confirming or executing), and the
\* current controller is the one of the executing invocation.
C2_SingleInvocation ==
    /\ Cardinality(Busy) <= 1
    /\ \A r \in Executing : currentAbortController = runs[r].signal

\* C3: after an interrupt that handleCtrlC handled as a non-double one while a
\* handler was executing, the signal of every executing handler is aborted, the
\* interrupted notice was printed and the process has not exited.
C3_InterruptAbortsHandler ==
    (ev.kind = "sigint" /\ ev.state \in {"aborted", "hint"} /\ Executing # {})
        => /\ \A r \in Executing : runs[r].signal \in aborted
           /\ ev.out = << <<"taskInterrupted">> >>
           /\ ~exited

\* C4: an interrupt that comes less than DOUBLE_CTRL_C_THRESHOLD_MS after the
\* interrupt before it ends the process through exit(): farewell, exit code 0.
C4_DoubleInterruptExits ==
    (ev.kind = "sigint" /\ ev.gap < DOUBLE_CTRL_C_THRESHOLD_MS)
        => (exited /\ exitCode = 0 /\ ev.out = farewell)

\* C5: the process has exited only by an exit command line or by a double
\* interrupt, with exit code 0; no failure raised while a line is dispatched ends
\* it, and after any other line, confirmation or completion the loop takes input.
C5_FailuresNotFatal ==
    /\ exited => /\ exitCode = 0
                 /\ \/ ev.kind = "line" /\ ev.command \in ExitCommands
                    \/ ev.kind = "sigint" /\ ev.gap < DOUBLE_CTRL_C_THRESHOLD_MS
    /\ ev.thrown # NoError => AwaitingInput
    /\ (ev.kind \in {"line", "confirm", "settle"} /\ ev.command \notin ExitCommands)
          => AwaitingInput

C5_Witness ==
    /\ ev.kind = "confirm"
    /\ ev.answer = "rejected"
    /\ ev.thrown = PromptError
    /\ AwaitingLine

\* C6: a caught failure named AbortError prints no error line; any other caught
\* failure prints exactly one error line, "Error: <message>"; either way the loop
\* goes on.
C6_ErrorReporting ==
    /\ (ev.thrown # NoError /\ ev.thrown.name = "AbortError")
          => (ErrorLines(ev.out) = {} /\ AwaitingInput)
    /\ (ev.thrown # NoError /\ ev.thrown.name # "AbortError")
          => /\ Cardinality(ErrorLines(ev.out)) = 1
             /\ \A i \in ErrorLines(ev.out) : ev.out[i] = <<"Error:", ev.thrown.message>>
             /\ AwaitingInput

C6_Witness ==
    /\ ev.kind = "settle"
    /\ ev.thrown = AbortError
    /\ ev.out = showPrompt

\* C9: when the handler of a long-running command is suspended on its FileManager
\* operation, the signal that operation was given is the signal of the controller
\* handleInput created for the invocation.
C9_TokenReachesOperation ==
    (ev.state = "pending" /\ ev.command \in LongRunningCommands)
        => (ev.signal # NoSignal /\ ev.opSignal = ev.signal)

\* C10: a line taken in the awaiting-line state whose command is .exit, exit, quit
\* or q ends the process with exit code 0 and the farewell as its only output, no
\* confirmation prompt is opened, and no step follows the exit.
C10_ExitCommand ==
    [][ /\ ~exited
        /\ (ev'.kind = "line" /\ ev'.state # "dropped" /\ ev'.command \in ExitCommands)
              => /\ exited'
                 /\ exitCode' = 0
                 /\ ev'.out = farewell
                 /\ ~isPrompting' ]_vars

C10_Witness ==
    /\ exited
    /\ exitCode = 0
    /\ ev.kind = "line"
    /\ ev.command = n_quit

(***************************************************************************)
(* Properties of the FileManager operations.                               *)
(***************************************************************************)
\* the arguments name what the operation needs
Accepts(f) ==
    CASE f.op \in {"copyFile", "moveFile"} ->
            fileExists(f.fs, "src") /\ directoryExists(f.fs, "destDir") /\ f.fs["dest"] = "absent"
      [] f.op \in {"readFile", "calculateHash", "compressFile", "decompressFile"} ->
            fileExists(f.fs, "src")
      [] f.op = "grep" -> f.fs["src"] # "absent"
      [] OTHER -> TRUE

Pipelined == { "copyFile", "compressFile", "decompressFile" }

AbortedInPipeline ==
    /\ fm.pc = "done"
    /\ fm.op \in Pipelined
    /\ fm.midAbort
    /\ fm.result = "AbortError"

\* C7: an operation called with an already aborted signal changes no file, and,
\* given arguments it accepts, fails with the AbortError.
C7_PreAbortedFails ==
    (fm.pc = "done" /\ fm.preAborted)
        => /\ fm.changes = {}
           /\ Accepts(fm) => fm.result = "AbortError"

C11_Execute ==
    call.op = "execute" =>
        LET command == get(commandRegistry, call.name)
            x == call.execution
        IN  IF command = Undefined
            THEN /\ x.state = "threw"
                 /\ x.thrown = Error("Unknown command")
                 /\ x.invoked = "none"
            ELSE /\ x.invoked = command.handler
                 /\ x.handlerArgs = call.args
                 /\ x.handlerSignal = call.signal
                 /\ x.thrown = ArgError(command.handler, call.args)
                 /\ (x.state = "threw") = (ArgError(command.handler, call.args) # NoError)

\* a handler reached through an alias fails, and execute fails with its failure
C11_Witness ==
    /\ call.op = "execute"
    /\ call.name \in DOMAIN commandRegistry.aliases
    /\ call.name \notin DOMAIN commandRegistry.commands
    /\ call.signal # NoSignal
    /\ call.execution.invoked = "catHandler"
    /\ call.execution.thrown = Error("Missing required argument")

\* C12 as the spec states it: after any sequence of register, registerAlias and
\* clear calls, size is the number of distinct names registered since the last clear,
\* every registered name is found by has, and get(name).handler is the handler the
\* name was registered with last.
C12_LatestHandler ==
    /\ size(commandRegistry) = Cardinality(call.registered)
    /\ \A name \in call.registered :
          /\ has(commandRegistry, name)
          /\ get(commandRegistry, name).handler = call.latest[name].handler

\* C12, amended: size is the number of distinct names registered since the last
\* clear and every registered name is found by has; the entry stored under the name
\* holds the handler registered last, and get(name) gives that entry unless the name
\* is also an alias, when it gives the entry of the alias's target.
C12_LatestHandlerUnlessAliased ==
    /\ size(commandRegistry) = Cardinality(call.registered)
    /\ \A name \in call.registered :
          /\ has(commandRegistry, name)
          /\ commandRegistry.commands[name].handler = call.latest[name].handler
          /\ name \notin DOMAIN commandRegistry.aliases
                => get(commandRegistry, name).handler = call.latest[name].handler
          /\ name \in DOMAIN commandRegistry.aliases
                => get(commandRegistry, name)
                     = commandRegistry.commands[commandRegistry.aliases[name]]

\* a name that is an alias of another command is registered as a command
C12_Witness ==
    /\ call.op = "register"
    /\ size(commandRegistry) = 2
    /\ call.name \in DOMAIN commandRegistry.aliases
    /\ commandRegistry.aliases[call.name] # call.name
    /\ get(commandRegistry, call.name).handler # call.handler

\* C13: registerAlias(alias, target) throws and leaves the alias map and the command
\* map as they were when target is not a registered command name; when target is
\* registered it succeeds, and right afterwards has(alias) is true and
\* get(alias).name is target.
C13_RegisterAlias ==
    [][ call'.op = "registerAlias" =>
           IF call'.target \notin DOMAIN commandRegistry.commands
           THEN /\ call'.threw
                /\ commandRegistry' = commandRegistry
           ELSE /\ ~call'.threw
                /\ has(commandRegistry', call'.name)
                /\ get(commandRegistry', call'.name).name = call'.target ]_vars

\* the call is refused for a target that is an alias but no command name
C13_Witness ==
    /\ call.op = "registerAlias"
    /\ call.threw
    /\ call.target \in DOMAIN commandRegistry.aliases
    /\ call.target \notin DOMAIN commandRegistry.commands

\* C14: for every name and every registry state, get(name) returns the command
\* stored under aliases[name] when name is a key of the alias map and otherwise the
\* command stored under name: one alias hop, the alias entry before a command of the
\* same name.  It returns undefined, without throwing, when nothing is stored there,
\* and has(name) is true exactly when get(name) is defined.
C14_GetAndHas ==
    LET key == IF call.name \in DOMAIN commandRegistry.aliases
               THEN commandRegistry.aliases[call.name]
               ELSE call.name
        stored == IF key \in DOMAIN commandRegistry.commands
                  THEN commandRegistry.commands[key]
                  ELSE Undefined
    IN  /\ call.op = "get" => ~call.threw /\ call.found = stored
        /\ call.op = "has" => ~call.threw /\ call.answer = (stored # Undefined)

\* get on a name that is a command and also an alias of another command, whose own
\* name is an alias again: the answer is the command one hop away
C14_Witness ==
    /\ call.op = "get"
    /\ call.name \in DOMAIN commandRegistry.commands
    /\ call.name \in DOMAIN commandRegistry.aliases
    /\ commandRegistry.aliases[call.name] # call.name
    /\ commandRegistry.aliases[call.name] \in DOMAIN commandRegistry.aliases
    /\ call.found.name = commandRegistry.aliases[call.name]
    /\ call.found.handler # commandRegistry.commands[call.name].handler

\* C15: requiresConfirmation(name) never throws and returns the confirmation flag of
\* the command that name resolves to, through an alias if there is one: true only if
\* that command was registered with requiresConfirmation = true, false when the flag
\* was left out at registration, and false when name resolves to nothing.
C15_RequiresConfirmation ==
    call.op = "requiresConfirmation" =>
        LET key == IF call.name \in DOMAIN commandRegistry.aliases
                   THEN commandRegistry.aliases[call.name]
                   ELSE call.name
        IN  /\ ~call.threw
            /\ call.answer = (key \in call.registered /\ call.latest[key].flag = "true")

\* asked about an alias of a command that needs the confirmation
C15_Witness ==
    /\ call.op = "requiresConfirmation"
    /\ call.name \in DOMAIN commandRegistry.aliases
    /\ call.name \notin DOMAIN commandRegistry.commands
    /\ call.answer

(***************************************************************************)
(* Properties of the parser, under SpecParser.  scan holds the locals of   *)
(* the loop; when scan.pc = "done", scan.result is the list of tokens,     *)
(* scan.parsed what parseCommandWithQuotes returned and scan.tokens what   *)
(* tokenize returned.                                                      *)
(***************************************************************************)

\* C16: parseCommandWithQuotes ends without throwing for every input string (the
\* index stays within the input until the loop is left), neither its args nor the
\* result of tokenize ever contains an empty string, and command is the empty string
\* only when the input yields no token at all.
C16_NoEmptyToken ==
    /\ scan.pc = "loop" => scan.i \in 1 .. Len(scan.input) + 1
    /\ \A k \in 1 .. Len(scan.result) : scan.result[k] # <<>>
    /\ scan.pc = "done" =>
          /\ \A k \in 1 .. Len(scan.parsed.args) : scan.parsed.args[k] # <<>>
          /\ \A k \in 1 .. Len(scan.tokens) : scan.tokens[k] # <<>>
          /\ scan.result = <<>> => scan.parsed = [command |-> <<>>, args |-> <<>>]
          /\ scan.result # <<>> =>
                /\ scan.parsed.command = scan.result[1]
                /\ scan.parsed.command # <<>>
                /\ scan.parsed.args = Tail(scan.result)
          /\ scan.tokens = scan.result

\* an input of spaces and an empty quoted section has been parsed: no token
C16_Witness ==
    /\ scan.pc = "done"
    /\ scan.input = <<SP, DQ, DQ, SP>>
    /\ scan.parsed.command = <<>>
    /\ scan.tokens = <<>>

\* C17: for every input that contains no quote and no backslash,
\* parseCommandWithQuotes returns exactly the maximal runs of non-space characters
\* from left to right, the first as command and the others as args; leading,
\* trailing and repeated spaces do not change the result.
C17_SpaceSeparatedRuns ==
    (/\ scan.pc = "done"
     /\ \A k \in 1 .. Len(scan.input) : scan.input[k] \notin {DQ, SQ, BS}) =>
        LET input == scan.input
            starts == { k \in 1 .. Len(input) :
                          input[k] # SP /\ (k = 1 \/ input[k - 1] = SP) }
            end(k) == CHOOSE e \in k .. Len(input) :
                          /\ \A j \in k .. e : input[j] # SP
                          /\ e = Len(input) \/ input[e + 1] = SP
            nth(j) == CHOOSE k \in starts : Cardinality({ m \in starts : m < k }) = j - 1
            words == [j \in 1 .. Cardinality(starts) |-> SubSeq(input, nth(j), end(nth(j)))]
        IN  /\ scan.result = words
            /\ scan.parsed.command = (IF Cardinality(starts) = 0 THEN <<>> ELSE words[1])
            /\ scan.parsed.args = [j \in 1 .. Cardinality(starts) - 1 |-> words[j + 1]]

\* two runs with two spaces between them have been parsed
C17_Witness ==
    /\ scan.pc = "done"
    /\ scan.input = <<"a", SP, SP, "a">>
    /\ scan.parsed = [command |-> <<"a">>, args |-> << <<"a">> >>]

\* C18: a quote character that is not preceded by a backslash opens a quoted section
\* when none is open and is not put into the token; inside the section a space does
\* not separate arguments, the matching quote closes the section and is not put
\* into the token, and the other quote character is kept as a literal character;
\* closing the section does not by itself end the token.
C18_QuotedSection ==
    [][ (scan.pc = "loop" /\ scan.i <= Len(scan.input)) =>
          LET char == scan.input[scan.i]
              prevChar == IF scan.i > 1 THEN scan.input[scan.i - 1] ELSE ""
              same == /\ scan'.result = scan.result
                      /\ scan'.current = scan.current
              literal == /\ scan'.result = scan.result
                         /\ scan'.current = Append(scan.current, char)
                         /\ scan'.inQuotes = scan.inQuotes
                         /\ scan'.quoteChar = scan.quoteChar
          IN  /\ (~scan.inQuotes /\ char \in {DQ, SQ} /\ prevChar # BS)
                    => same /\ scan'.inQuotes /\ scan'.quoteChar = char
              /\ (scan.inQuotes /\ char = SP) => literal
              /\ (scan.inQuotes /\ char = scan.quoteChar /\ prevChar # BS)
                    => same /\ ~scan'.inQuotes
              /\ (scan.inQuotes /\ char \in {DQ, SQ} \ {scan.quoteChar}) => literal ]_vars

\* a quoted space, the closing quote and one more character make one token
C18_Witness ==
    /\ scan.pc = "done"
    /\ scan.input = <<DQ, SP, DQ, "a">>
    /\ scan.result = << <<SP, "a">> >>

\* C19: a backslash immediately followed by a double quote, a single quote or a
\* backslash adds exactly that second character to the current token, consumes both
\* input characters and leaves the quoting state as it is; a backslash followed by
\* any other character, or at the end of the input, is kept literally.
C19_Backslash ==
    [][ (scan.pc = "loop" /\ scan.i <= Len(scan.input) /\ scan.input[scan.i] = BS) =>
          /\ scan'.result = scan.result
          /\ scan'.inQuotes = scan.inQuotes
          /\ scan'.quoteChar = scan.quoteChar
          /\ IF scan.i < Len(scan.input) /\ scan.input[scan.i + 1] \in {DQ, SQ, BS}
             THEN /\ scan'.current = Append(scan.current, scan.input[scan.i + 1])
                  /\ scan'.i = scan.i + 2
             ELSE /\ scan'.current = Append(scan.current, BS)
                  /\ scan'.i = scan.i + 1 ]_vars

\* inside a quoted section an escaped backslash and then a backslash at the end of
\* the input have been scanned
C19_Witness ==
    /\ scan.pc = "done"
    /\ scan.input = <<DQ, BS, BS, BS>>
    /\ scan.inQuotes
    /\ scan.result = << <<BS, BS>> >>

\* C20: if a quote is opened and never closed, parsing still succeeds and everything
\* of the input after the opening quote, spaces included, becomes part of one single
\* token, which is the last token of the result.  The token is what current held
\* when the quote was opened followed by the rest of the input, less the
\* backslashes that escape the character after them.
C20_UnclosedQuote ==
    (scan.pc = "done" /\ scan.inQuotes) =>
        LET rest == SubSeq(scan.input, scan.opened.at + 1, Len(scan.input))
            \* the number of backslashes in a row just before position j
            before(j) == Cardinality({ k \in 1 .. j - 1 :
                                         \A l \in k .. j - 1 : rest[l] = BS })
            escaping(j) == /\ rest[j] = BS
                           /\ before(j) % 2 = 0
                           /\ j < Len(rest)
                           /\ rest[j + 1] \in {DQ, SQ, BS}
            kept == { j \in 1 .. Len(rest) : ~escaping(j) }
            nth(m) == CHOOSE j \in kept : Cardinality({ k \in kept : k < j }) = m - 1
            token == scan.opened.current \o [m \in 1 .. Cardinality(kept) |-> rest[nth(m)]]
        IN  /\ scan.opened.at \in 1 .. Len(scan.input)
            /\ scan.input[scan.opened.at] = scan.quoteChar
            /\ \A j \in 1 .. Len(rest) : rest[j] = SP => ~escaping(j)
            /\ scan.result = IF token = <<>>
                             THEN scan.opened.result
                             ELSE Append(scan.opened.result, token)

\* a quote opened after a first token and never closed: the space after it is the
\* last token
C20_Witness ==
    /\ scan.pc = "done"
    /\ scan.inQuotes
    /\ scan.input = <<"a", SP, DQ, SP>>
    /\ scan.result = << <<"a">>, <<SP>> >>

\* C21: a quoted section with empty contents ("" or '') that stands alone between
\* separators, outside any quoted section, produces no argument: the result is the
\* result for the input without the two quote characters, and no argument is the
\* empty string.
C21_EmptyQuotedSection ==
    scan.pc = "done" =>
        \A k \in 1 .. Len(scan.input) - 1 :
            LET input == scan.input
                before == SubSeq(input, 1, k - 1)
                after == SubSeq(input, k + 2, Len(input))
                \* the scan of before ends outside quotes: a word added after a space
                \* is a token of its own
                probe == ParseScan(before \o <<SP, "a">>, 1, <<>>, <<>>, FALSE, "")
            IN  (/\ input[k] \in {DQ, SQ}
                 /\ input[k + 1] = input[k]
                 /\ k = 1 \/ input[k - 1] = SP
                 /\ k + 1 = Len(input) \/ input[k + 2] = SP
                 /\ probe[Len(probe)] = <<"a">>) =>
                    /\ scan.parsed = parseCommandWithQuotes(before \o after)
                    /\ \A j \in 1 .. Len(scan.parsed.args) : scan.parsed.args[j] # <<>>

\* a command followed by a space and an empty quoted section has been parsed
C21_Witness ==
    /\ scan.pc = "done"
    /\ scan.input = <<"a", SP, SQ, SQ>>
    /\ scan.parsed = [command |-> <<"a">>, args |-> <<>>]

(***************************************************************************)
(* C22: in parseFlags a single-dash token of length exactly 2 takes the    *)
(* following token as its value, and skips it, whenever that token exists  *)
(* and is not a flag in the sense of isFlag; otherwise its value is true.  *)
(* Stated for the first token of the argument list, the rest of the list   *)
(* being parsed after it.                                                  *)
(***************************************************************************)
C22_ShortFlagValue ==
    (/\ flagsCall.fn = "parseFlags"
     /\ Len(flagsCall.args) >= 1
     /\ Len(flagsCall.args[1]) = 2
     /\ flagsCall.args[1][1] = "-"
     /\ flagsCall.args[1][2] # "-")
    => LET args == flagsCall.args
           takes == Len(args) >= 2 /\ ~isFlag(args[2])
           rest == parseFlags(SubSeq(args, IF takes THEN 3 ELSE 2, Len(args)))
           value == IF takes THEN [isTrue |-> FALSE, text |-> args[2]]
                    ELSE [isTrue |-> TRUE, text |-> <<>>]
       IN  /\ flagsCall.flags = rest.flags @@ (<<args[1][2]>> :> value)
           /\ flagsCall.remaining = rest.remaining

(***************************************************************************)
(* C23: parseFlags and parseArgs store for --key=value only the text       *)
(* between the first and the second "=", and for a long flag without "="   *)
(* the boolean true.  The entry is the one of the last token that sets the *)
(* key; parseArgs keeps the value of --username=... as the username, which *)
(* falls back to "Anonymous" when that text is empty.                      *)
(***************************************************************************)
C23_LongFlagValue ==
    flagsCall.fn \in {"parseFlags", "parseArgs"}
    => \A i \in 1 .. Len(flagsCall.args) :
         LET args == flagsCall.args
             Body(tok) == SubSeq(tok, 3, Len(tok))
             Eqs(tok) == { k \in 1 .. Len(Body(tok)) : Body(tok)[k] = "=" }
             First(tok) == CHOOSE k \in Eqs(tok) : \A l \in Eqs(tok) : k <= l
             Second(tok) == IF Cardinality(Eqs(tok)) >= 2
                            THEN CHOOSE k \in Eqs(tok) \ {First(tok)} :
                                     \A l \in Eqs(tok) \ {First(tok)} : k <= l
                            ELSE Len(Body(tok)) + 1
             Key(tok) == IF Eqs(tok) = {} THEN Body(tok)
                         ELSE SubSeq(Body(tok), 1, First(tok) - 1)
             Sets(j, key) ==
                 \/ startsWith(args[j], <<"-", "-">>) /\ Key(args[j]) = key
                 \/ /\ flagsCall.fn = "parseFlags"
                    /\ Len(args[j]) = 2 /\ args[j][1] = "-" /\ <<args[j][2]>> = key
             text == SubSeq(Body(args[i]), First(args[i]) + 1, Second(args[i]) - 1)
         IN  (/\ startsWith(args[i], <<"-", "-">>)
              /\ \A j \in i + 1 .. Len(args) : ~Sets(j, Key(args[i])))
             => IF Eqs(args[i]) = {}
                THEN /\ Key(args[i]) \in DOMAIN flagsCall.flags
                     /\ flagsCall.flags[Key(args[i])].isTrue
                ELSE IF /\ flagsCall.fn = "parseArgs"
                        /\ Key(args[i]) = <<"u", "s", "e", "r", "n", "a", "m", "e">>
                     THEN flagsCall.username =
                              IF text # <<>> THEN text
                              ELSE <<"A", "n", "o", "n", "y", "m", "o", "u", "s">>
                     ELSE /\ Key(args[i]) \in DOMAIN flagsCall.flags
                          /\ flagsCall.flags[Key(args[i])] = [isTrue |-> FALSE, text |-> text]

C23_Witness ==
    /\ flagsCall.fn = "parseFlags"
    /\ flagsCall.args = << <<"-", "-", "k">>, <<"-", "-", "k", "=", "a", "=", "b">> >>
    /\ flagsCall.flags = (<<"k">> :> [isTrue |-> FALSE, text |-> <<"a">>])

(***************************************************************************)
(* C24: navigateUp moves to the parent directory and returns true only     *)
(* when the working directory is a proper descendant of the home           *)
(* directory; otherwise it returns false and leaves the working directory  *)
(* unchanged, so that it never moves above or outside the home directory.  *)
(***************************************************************************)
C24_NavigateUp ==
    nav.op = "navigateUp"
    => LET under(dir) == \/ dir = nav.homeDir
                         \/ nav.homeDir = <<"/">>
                         \/ startsWith(dir, nav.homeDir \o <<"/">>)
       IN  IF under(nav.from) /\ nav.from # nav.homeDir
           THEN nav.moved /\ nav.cwd = dirname(nav.from) /\ under(nav.cwd)
           ELSE ~nav.moved /\ nav.cwd = nav.from

(***************************************************************************)
(* C25: after clear() the size is 0, getAliases() is empty and has(n) is   *)
(* false for every name, the former command names and aliases included; a  *)
(* registerAlias to a target that was registered before the clear fails    *)
(* until the target is registered again, and succeeds after that.          *)
(***************************************************************************)
C25_Clear ==
    /\ call.op = "clear"
       => /\ size(commandRegistry) = 0
          /\ DOMAIN commandRegistry.aliases = {}
          /\ \A n \in LookupNames \cup call.cleared.commands \cup call.cleared.aliases :
                ~has(commandRegistry, n)
    /\ (call.op = "has" /\ call.name \in call.cleared.commands \cup call.cleared.aliases)
       => ~call.answer
    /\ call.op = "registerAlias"
       => (call.threw <=> call.target \notin call.registered)
    /\ (call.op = "registerAlias" /\ call.target \in call.cleared.commands)
       => call.threw /\ DOMAIN commandRegistry.aliases = {}

\* an alias for a command that was registered, and had this alias, before the clear
C25_Witness ==
    /\ call.op = "registerAlias"
    /\ call.threw
    /\ call.target \in call.cleared.commands
    /\ call.name \in call.cleared.aliases
    /\ size(commandRegistry) = 0

(***************************************************************************)
(* C30: in every registry state each entry of the alias map points at a    *)
(* key of the command map, so every alias of getAliases() satisfies has    *)
(* and resolves in one hop; a registerAlias whose target is only an alias  *)
(* fails.                                                                  *)
(***************************************************************************)
C30_AliasTargets ==
    /\ \A alias \in DOMAIN commandRegistry.aliases :
          /\ commandRegistry.aliases[alias] \in DOMAIN commandRegistry.commands
          /\ has(commandRegistry, alias)
          /\ get(commandRegistry, alias)
               = commandRegistry.commands[commandRegistry.aliases[alias]]
          /\ get(commandRegistry, alias).name = commandRegistry.aliases[alias]
    /\ (/\ call.op = "registerAlias"
        /\ call.target \in DOMAIN commandRegistry.aliases
        /\ call.target \notin DOMAIN commandRegistry.commands)
       => call.threw

\* type is a command with the alias cat; making type an alias of cat is refused
C30_Witness ==
    /\ call.op = "registerAlias"
    /\ call.name = n_type
    /\ call.target = n_cat
    /\ call.threw
    /\ DOMAIN commandRegistry.commands = {n_type}
    /\ commandRegistry.aliases = (n_cat :> n_type)

(***************************************************************************)
(* C26: copyFile fails without creating or modifying any file when the     *)
(* source file is missing, when the destination directory is missing, or   *)
(* when a file with the source's name already exists in the destination    *)
(* directory; that file keeps its content.                                 *)
(***************************************************************************)
C26_CopyFileRefused ==
    [][ (/\ fm.pc = "call"
         /\ fm.op = "copyFile"
         /\ \/ ~fileExists(fm.fs, "src")
            \/ ~directoryExists(fm.fs, "destDir")
            \/ fileExists(fm.fs, "dest"))
        => /\ fm'.pc = "done"
           /\ fm'.result \in {"Error", "AbortError"}
           /\ fm'.result = "AbortError" => Aborted(fm.signal)
           /\ fm'.fs = fm.fs
           /\ fm'.changes = {} ]_vars

\* the copy is refused because the destination file exists; nothing was truncated
C26_Witness ==
    /\ fm.op = "copyFile"
    /\ fm.pc = "done"
    /\ fm.result = "Error"
    /\ fileExists(fm.fs, "src")
    /\ directoryExists(fm.fs, "destDir")
    /\ fileExists(fm.fs, "dest")
    /\ fm.changes = {}

(***************************************************************************)
(* C27: every handler invocation that handleInput starts gets the signal   *)
(* of an AbortController made for it alone, held by no other invocation    *)
(* and not aborted at that point; when an invocation completes, by         *)
(* returning or by throwing a failure or the AbortError, isExecutingCommand *)
(* is false and currentAbortController is null; an interrupt that comes    *)
(* while no invocation is under way aborts nothing, so the invocation that *)
(* follows it starts with a signal that is not aborted.                    *)
(***************************************************************************)
C27_TokenPerInvocation ==
    [][ /\ (ev'.kind \in {"line", "confirm"} /\ ev'.invoked # "none")
           => /\ ev'.signal # NoSignal
              /\ ev'.signal \notin aborted
              /\ ev'.signal \notin aborted'
              /\ \A q \in Executing : runs[q].signal # ev'.signal
              /\ ev'.state = "pending"
                 => /\ currentAbortController' = ev'.signal
                    /\ \E r \in Slots : /\ runs[r].pc # "executing"
                                        /\ runs'[r].pc = "executing"
                                        /\ runs'[r].signal = ev'.signal
        /\ (\/ ev'.kind = "settle"
            \/ /\ ev'.kind \in {"line", "confirm"}
               /\ ev'.invoked # "none"
               /\ ev'.state \in {"returned", "threw", "crash"})
           => /\ ~isExecutingCommand'
              /\ currentAbortController' = NoController
        /\ (ev'.kind = "sigint" /\ Executing = {})
           => aborted' = aborted /\ aborted = {} ]_vars

\* an invocation that an interrupt aborted has completed with the AbortError
C27_Witness ==
    /\ ev.kind = "settle"
    /\ ev.thrown = AbortError
    /\ ~isExecutingCommand
    /\ currentAbortController = NoController
    /\ aborted = {}
    /\ ~exited

(***************************************************************************)
(* C28: an interrupt that comes DOUBLE_CTRL_C_THRESHOLD_MS or more after   *)
(* the recorded one while no command is executing records its time and     *)
(* prints the exit hint, and nothing else: no signal is aborted, the       *)
(* process does not exit, no prompt is shown, and isExecutingCommand,      *)
(* currentAbortController, isPrompting and the registry stay as they are.  *)
(***************************************************************************)
C28_IdleInterrupt ==
    [][ (/\ ev'.kind = "sigint"
         /\ ~IsDoubleCtrlC(now', lastCtrlCTime)
         /\ Executing = {})
        => /\ lastCtrlCTime' = now'
           /\ ev'.out = << <<"interruptHint">> >>
           /\ aborted' = aborted
           /\ ~exited'
           /\ UNCHANGED <<isExecutingCommand, currentAbortController, isPrompting,
                          runs, rl, commandRegistry>> ]_vars

(***************************************************************************)
(* C29: a 'line' event that comes while the confirmation sub-prompt is     *)
(* active is dropped: no handleInput invocation starts for it, nothing is  *)
(* printed and no prompt is shown, nothing of it is kept, and when the     *)
(* prompt ends only the confirmed command is dispatched.                   *)
(***************************************************************************)
C29_LineDroppedWhilePrompting ==
    [][ /\ (isPrompting /\ ev'.kind = "line")
           => /\ ev'.state = "dropped"
              /\ ev'.invoked = "none"
              /\ ev'.out = <<>>
              /\ UNCHANGED <<rl, isRunning, isPrompting, isExecutingCommand,
                             currentAbortController, lastCtrlCTime, aborted, runs,
                             exited, exitCode>>
        /\ ev'.kind = "confirm"
           => /\ \E r \in Slots : /\ runs[r].pc = "confirming"
                                  /\ ev'.command = runs[r].command
                                  /\ \A q \in Slots \ {r} : runs'[q] = runs[q]
              /\ Cardinality(Busy') <= Cardinality(Busy) ]_vars

\* a line was dropped while the prompt of a pending confirmation is shown
C29_Witness ==
    /\ ev.kind = "line"
    /\ ev.state = "dropped"
    /\ isPrompting
    /\ \E r \in Slots : runs[r].pc = "confirming"
    /\ ~exited

(***************************************************************************)
(* C31: when a name that has an alias is registered again, get and execute *)
(* on the alias use the new handler and the new confirmation flag, and     *)
(* register leaves the alias map as it was.                                *)
(***************************************************************************)
C31_AliasFollowsOverwrite ==
    [][ call'.op = "register"
        => /\ commandRegistry'.aliases = commandRegistry.aliases
           /\ \A a \in DOMAIN commandRegistry.aliases :
                 commandRegistry.aliases[a] = call'.name
                 => /\ get(commandRegistry', a).handler = call'.handler
                    /\ get(commandRegistry', a).requiresConfirmation
                         = FlagArgument(call'.flag)
                    /\ requiresConfirmation(commandRegistry', a) = FlagArgument(call'.flag)
                    /\ \A args \in { <<>>, <<a_x>> } :
                          execute(commandRegistry', a, args, NoSignal).invoked
                            = call'.handler ]_vars

\* cat is an alias of type, which can only have been made after type was registered,
\* and type has just been registered again, now with catHandler and confirmation
C31_Witness ==
    /\ call.op = "register"
    /\ call.name = n_type
    /\ call.handler = "catHandler"
    /\ call.flag = "true"
    /\ commandRegistry.aliases = (n_cat :> n_type)
    /\ get(commandRegistry, n_cat).handler = "catHandler"
    /\ requiresConfirmation(commandRegistry, n_cat)

(***************************************************************************)
(* C32: a quote character whose preceding input character is a backslash  *)
(* does not toggle quoting and is added to the token as it is, and that    *)
(* backslash is not added to the token.  The scan passes such a quote      *)
(* either in the step of the backslash before it, or in a step of its own  *)
(* after the step that consumed the backslash.                             *)
(***************************************************************************)
C32_EscapedQuote ==
    [][ (scan.pc = "loop" /\ scan.i <= Len(scan.input)) =>
          LET i == scan.i
              input == scan.input
              literal(char) == /\ scan'.result = scan.result
                               /\ scan'.current = Append(scan.current, char)
                               /\ scan'.inQuotes = scan.inQuotes
                               /\ scan'.quoteChar = scan.quoteChar
          IN  /\ (i < Len(input) /\ input[i] = BS /\ input[i + 1] \in {DQ, SQ})
                 => literal(input[i + 1]) /\ scan'.i = i + 2
              /\ (i > 1 /\ input[i] \in {DQ, SQ} /\ input[i - 1] = BS)
                 => /\ literal(input[i])
                    /\ scan'.i = i + 1
                    \* the step before this one did not add input[i - 1]
                    /\ ~(scan.branch = "escape" /\ scan.current # <<>>
                         /\ scan.current[Len(scan.current)] = input[i - 1]) ]_vars

(***************************************************************************)
(* C33: parseFlags accounts for every token exactly once.  A token is a    *)
(* long flag, a short flag, the value a short flag immediately before it   *)
(* consumed, or any other token: the keys of flags are exactly the keys of *)
(* the flag tokens, a consumed value is stored under its flag (unless a    *)
(* later token sets the same key), and remaining is exactly the other      *)
(* tokens in their original order.                                         *)
(***************************************************************************)
C33_EveryTokenOnce ==
    flagsCall.fn = "parseFlags" =>
      LET args == flagsCall.args
          IsLong(i) == startsWith(args[i], <<"-", "-">>)
          IsShort(i) == ~IsLong(i) /\ Len(args[i]) = 2 /\ args[i][1] = "-"
          IsValue(i) == /\ i > 1 /\ IsShort(i - 1)
                        /\ args[i] # <<>> /\ args[i][1] # "-"
          IsOther(i) == ~IsLong(i) /\ ~IsShort(i) /\ ~IsValue(i)
          Body(i) == SubSeq(args[i], 3, Len(args[i]))
          Eqs(i) == { k \in 1 .. Len(Body(i)) : Body(i)[k] = "=" }
          Key(i) == IF IsShort(i) THEN <<args[i][2]>>
                    ELSE IF Eqs(i) = {} THEN Body(i)
                    ELSE SubSeq(Body(i), 1, (CHOOSE k \in Eqs(i) : \A l \in Eqs(i) : k <= l) - 1)
          others[k \in 0 .. Len(args)] ==
              IF k = 0 THEN <<>>
              ELSE IF IsOther(k) THEN Append(others[k - 1], args[k]) ELSE others[k - 1]
      IN  /\ \A i \in 1 .. Len(args) :
                Cardinality({ c \in {"long", "short", "value", "other"} :
                                \/ c = "long" /\ IsLong(i)
                                \/ c = "short" /\ IsShort(i)
                                \/ c = "value" /\ IsValue(i)
                                \/ c = "other" /\ IsOther(i) }) = 1
          /\ DOMAIN flagsCall.flags
               = { Key(i) : i \in { j \in 1 .. Len(args) : IsLong(j) \/ IsShort(j) } }
          /\ \A i \in 1 .. Len(args) :
                (/\ IsValue(i)
                 /\ \A j \in i + 1 .. Len(args) :
                       (IsLong(j) \/ IsShort(j)) => Key(j) # Key(i - 1))
                => flagsCall.flags[Key(i - 1)] = [isTrue |-> FALSE, text |-> args[i]]
          /\ \A i \in 1 .. Len(args) :
                (/\ IsShort(i)
                 /\ ~(i < Len(args) /\ IsValue(i + 1))
                 /\ \A j \in i + 1 .. Len(args) :
                       (IsLong(j) \/ IsShort(j)) => Key(j) # Key(i))
                => flagsCall.flags[Key(i)].isTrue
          /\ flagsCall.remaining = others[Len(args)]

\* a short flag, the value it consumed, and a token that is left over
C33_Witness ==
    /\ flagsCall.fn = "parseFlags"
    /\ flagsCall.args = << <<"-", "n">>, <<"x">>, <<"x">> >>
    /\ flagsCall.flags = (<<"n">> :> [isTrue |-> FALSE, text |-> <<"x">>])
    /\ flagsCall.remaining = << <<"x">> >>

(***************************************************************************)
(* C34: findFiles visits depth-first, each entry before what is inside it: *)
(* in the result list a matching directory comes before every match inside *)
(* it, the matches inside a directory (and the directory itself) come      *)
(* before the matches of its later siblings and of what is inside them,    *)
(* and entries of one directory come in the order readdir gave.  When      *)
(* findFiles returns, the list holds each matching entry of the readable   *)
(* part of the tree once and nothing else.                                 *)
(***************************************************************************)
C34_VisitThenDescend ==
    walk.op = "findFiles" =>
      LET parent(e) == CHOOSE d \in DOMAIN DirEntries :
                           \E k \in 1 .. Len(DirEntries[d]) : DirEntries[d][k] = e
          inside[e \in 0 .. 5] == IF e = 0 THEN {} ELSE {parent(e)} \cup inside[parent(e)]
          EarlierSibling(a, b) ==
              \E d \in DOMAIN DirEntries :
                 \E k, l \in 1 .. Len(DirEntries[d]) :
                    k < l /\ DirEntries[d][k] = a /\ DirEntries[d][l] = b
          Before(x, y) ==
              \/ x \in inside[y]
              \/ \E a \in {x} \cup inside[x], b \in {y} \cup inside[y] : EarlierSibling(a, b)
          results == walk.results
      IN  /\ \A i, j \in 1 .. Len(results) :
                 Before(results[i], results[j]) => i < j
          /\ \A i, j \in 1 .. Len(results) : results[i] = results[j] => i = j
          /\ (walk.pc = "done" /\ walk.result = "returned")
             => { results[i] : i \in 1 .. Len(results) }
                  = { e \in walk.matching : inside[e] \cap walk.unreadable = {} }

\* every entry matches: the directory 1, what is inside it, then its later sibling 2
C34_Witness ==
    /\ walk.op = "findFiles"
    /\ walk.pc = "done"
    /\ walk.result = "returned"
    /\ walk.results = <<1, 4, 5, 3, 2>>

(***************************************************************************)
(* C35: searchRecursive and grepRecursive look at the signal before they   *)
(* read a directory and before they process an entry.  A step that reads a *)
(* directory or processes an entry starts from a signal that is not        *)
(* aborted; a step that finds the signal aborted ends the whole call with  *)
(* the AbortError, through every level, with no entry processed or added;  *)
(* nothing happens after the call has ended.  A readdir that fails ends    *)
(* only its own level: nothing is added, the level above goes on with its  *)
(* next entry, the call never fails with that error, and a call that       *)
(* returns without an abort has processed every entry outside the          *)
(* unreadable directories.                                                 *)
(***************************************************************************)
C35_AbortAndSkip ==
    [][ LET top == walk.stack[Len(walk.stack)]
            atCheck == \/ walk.pc = "call" /\ walk.op = "findFiles"
                       \/ walk.pc = "stat"
                       \/ /\ walk.pc = "run"
                          /\ top.phase = "loop"
                          /\ top.next <= Len(DirEntries[top.dir])
            parent(e) == CHOOSE d \in DOMAIN DirEntries :
                             \E k \in 1 .. Len(DirEntries[d]) : DirEntries[d][k] = e
            inside[e \in 0 .. 5] ==
                IF e = 0 THEN {} ELSE {parent(e)} \cup inside[parent(e)]
        IN  /\ (walk'.read # walk.read \/ walk'.processed # walk.processed)
               => ~Aborted(walk.signal)
            /\ (atCheck /\ Aborted(walk.signal) /\ walk' # walk)
               => /\ walk'.pc = "done"
                  /\ walk'.result = "AbortError"
                  /\ walk'.stack = <<>>
                  /\ walk'.results = walk.results
                  /\ walk'.processed = walk.processed
                  /\ walk'.read = walk.read
            /\ walk.pc = "done" => walk' = walk
            /\ (/\ walk.pc = "run"
                /\ top.phase = "readdir"
                /\ top.dir \in walk.unreadable
                /\ walk'.signal = walk.signal
                /\ walk' # walk)
               => /\ walk'.results = walk.results
                  /\ walk'.processed = walk.processed
                  /\ IF Len(walk.stack) = 1
                     THEN walk'.pc = "done" /\ walk'.result = "returned"
                     ELSE /\ walk'.pc = "run"
                          /\ walk'.stack = SubSeq(walk.stack, 1, Len(walk.stack) - 1)
                          /\ walk'.stack[Len(walk'.stack)].phase = "loop"
            /\ walk'.result # "Error"
            /\ (walk'.pc = "done" /\ walk'.result = "returned" /\ ~Aborted(walk'.signal))
               => { walk'.processed[i] : i \in 1 .. Len(walk'.processed) }
                    = { e \in 1 .. 5 : inside[e] \cap walk.unreadable = {} } ]_vars

\* the abort came while directory 1 was read; it was found before the first entry of
\* directory 1 and ended both levels
C35_Witness ==
    /\ walk.pc = "done"
    /\ walk.result = "AbortError"
    /\ walk.read = <<0, 1>>
    /\ walk.processed = <<1>>
    /\ walk.stack = <<>>

(***************************************************************************)
(* moveFile: the copy, then the deletion of the source.                    *)
(***************************************************************************)
MoveFailed ==
    /\ fm.op = "moveFile"
    /\ fm.pc = "done"
    /\ fm.result \in {"Error", "AbortError"}

\* the source is deleted only by a moveFile whose copy ended well, a moveFile
\* whose copy failed fails too and leaves the source where it was
SourceDeletedAfterCopy ==
    fm.op = "moveFile" =>
        /\ <<"unlink", "src">> \in fm.changes
                => /\ fm.pc = "done"
                   /\ fm.result = "returned"
                   /\ <<"create", "dest">> \in fm.changes
                   /\ fm.fs["dest"] = "file"
                   /\ ~fm.midAbort
        /\ (fm.pc = "done" /\ fm.result = "returned") => <<"unlink", "src">> \in fm.changes
        /\ MoveFailed
                => /\ <<"unlink", "src">> \notin fm.changes
                   /\ <<"create", "dest">> \in fm.changes => fm.fs["src"] = "file"
        /\ (fm.pc = "done" /\ (fm.midAbort \/ (fm.preAborted /\ Accepts(fm))))
                => fm.result = "AbortError"

C38_InterfaceRestored ==
    [][ /\ ev'.kind = "confirm"
           => /\ isPrompting
              /\ rl.null
              /\ ~isPrompting'
              /\ isRunning'
              /\ ~exited'
              /\ ~rl'.null
              /\ ~rl'.closed
              /\ rl'.lineListeners = 1
              /\ rl'.sigintListeners = 1
        /\ (AwaitingLine /\ ev'.kind = "line")
           => /\ rl.lineListeners = 1
              /\ ev'.state # "dropped"
        /\ (AwaitingLine /\ ev'.kind = "sigint")
           => /\ rl.sigintListeners = 1
              /\ ev'.state \in {"exit", "aborted", "hint"} ]_vars

\* the prompt was answered yes and the confirmed handler is running on the new
\* interface
C38_Witness ==
    /\ ev.kind = "confirm"
    /\ ev.answer = "yes"
    /\ ev.state = "pending"
    /\ rl = NewInterface
    /\ ~isPrompting
    /\ isRunning
    /\ ~exited

(***************************************************************************)
(* The dispatch loop when every pending promise settles: the handler of    *)
(* each invocation and the confirmation prompt of each invocation.         *)
(***************************************************************************)
SpecLive ==
    /\ Spec
    /\ \A r \in Slots : WF_vars(\E outcome \in Outcomes : Settle(r, outcome))
    /\ \A r \in Slots : WF_vars(\E answer \in Answers : ConfirmSettle(r, answer))

\* the last event was a non-empty line that the 'line' listener dispatched
LineAccepted ==
    /\ ev.kind = "line"
    /\ ev.state \notin {"dropped", "empty"}

\* the last thing printed is the prompt, and the loop awaits a line
PromptRedisplayed ==
    /\ AwaitingLine
    /\ ev.out # <<>>
    /\ ev.out[Len(ev.out)] = <<"prompt">>

\* C36: every non-empty line the loop accepts is eventually followed by the
\* awaiting-line state with the prompt shown again, unless the process exits,
\* given that every handler and every confirmation prompt settles.
C36_PromptReturns ==
    LineAccepted ~> (exited \/ PromptRedisplayed)

\* the same for a line whose invocation is the only one in flight, for as long as
\* no second invocation is started
PromptReturnsForSingleInvocation ==
    (LineAccepted /\ Cardinality(Busy) <= 1)
        ~> (exited \/ PromptRedisplayed \/ Cardinality(Busy) > 1)

====
